---- MODULE Spec2Model ----
(***************************************************************************)
(* Model of the leadops pull/push mirror: the local SQLite rows, the       *)
(* mirror_state ledger, the remote (Airtable) records and the sync-state   *)
(* watermark, with pull_records / pull_service.pull and push_all as        *)
(* step-by-step processes.                                                  *)
(*                                                                         *)
(* Values of fields are strings: NONE stands for Python None, "" for the   *)
(* empty string, "#7" for the number 7 and "7" for the string "7".         *)
(* Timestamps are whole seconds (utc_now_iso drops microseconds).          *)
(***************************************************************************)
EXTENDS Integers, Sequences, FiniteSets, TLC

\* ------------------------------------------------------------------ bounds
MaxTime == 1
MaxEdits == 2
MaxRuns == 2
MaxRemote == 2
MaxFailures == 1

\* --------------------------------------------------------------- encodings
NONE == "<none>"
NoTime == 0 - 1
NoVersion == 0 - 1
BadVersion == 0 - 2
\* a timestamp string that datetime.fromisoformat rejects
BadTime == 0 - 2
NoRecordId == 0

Tables == <<"widgets", "gadgets">>
IdOrder == <<"w1", "g1">>
Ids == {IdOrder[i] : i \in 1..Len(IdOrder)}
TableOf(id) == IF id = "g1" THEN "gadgets" ELSE "widgets"

\* mapping.tables[t]["fields"]: local field -> remote field, in mapping order
FieldMap == <<[local |-> "id", remote |-> "ExternalId"], [local |-> "name", remote |-> "Name"]>>
\* the schema file: the type of each field of the mapped tables
VARIABLE schema
\* a schema whose name field is of the given type
Schema(name_type) == [f \in {"id", "name"} |-> IF f = "id" THEN "uuid" ELSE name_type]
\* schema.tables[t]["fields"][f]["type"]
FieldType(f) == schema[f]
EXCLUDED_FIELDS == {"created_at", "updated_at"}

LocalNames == {"Alpha", "Beta"}
RemoteNames == {NONE, "Beta", "#7"}
RemoteVersions == {BadVersion, 0}

\* ------------------------------------------------------- value conversions
\* str(value) on the encoding: the number 7 prints as "7"
Str(v) == IF v = "#7" THEN "7" ELSE v
\* float(value) succeeds on numbers and numeric strings only
IsFloat(v) == v \in {"#7", "7"}
Float(v) == "#7"

_serialize_value(v) == v

_normalize_value(value, field_type) ==
  IF value = NONE \/ value = "" THEN NONE
  ELSE IF field_type \in {"uuid", "text", "enum"} THEN Str(value)
  ELSE IF field_type = "number" THEN (IF IsFloat(value) THEN Float(value) ELSE Str(value))
  ELSE Str(value)

_values_equal(local_value, remote_value, field_type) ==
  _normalize_value(local_value, field_type) = _normalize_value(remote_value, field_type)

_convert_value(value, field_type) ==
  IF value = NONE THEN NONE
  ELSE IF field_type \in {"uuid", "text", "enum"} THEN Str(value)
  ELSE IF field_type = "number" THEN (IF IsFloat(value) THEN Float(value) ELSE NONE)
  ELSE value

\* ------------------------------------------------------------ row shapes
NoRow == [present |-> FALSE, name |-> NONE, updated_at |-> 0]
NoState == [present |-> FALSE, record_id |-> NoRecordId, mirror_version |-> 0, mirror_updated_at |-> NoTime]
NoRecord == [present |-> FALSE, table |-> "", ExternalId |-> NONE, Name |-> NONE,
             MirrorVersion |-> NoVersion, ModifiedAt |-> NoTime]

LocalField(row, id, f) == IF ~row.present THEN NONE ELSE IF f = "id" THEN id ELSE row.name
RemoteField(rec, rf) == IF rf = "ExternalId" THEN rec.ExternalId ELSE rec.Name

\* -------------------------------------------------- services/pull.py (pure)
RECURSIVE diff_from(_, _, _, _)
diff_from(i, row, id, rec) ==
  IF i > Len(FieldMap) THEN <<>>
  ELSE LET f == FieldMap[i]
           rest == diff_from(i + 1, row, id, rec)
       IN IF f.local \in EXCLUDED_FIELDS THEN rest
          ELSE IF ~_values_equal(LocalField(row, id, f.local), RemoteField(rec, f.remote), FieldType(f.local))
               THEN <<f.local>> \o rest
               ELSE rest

diff_fields(row, id, rec) == diff_from(1, row, id, rec)

\* None for None and for a string that does not parse
_parse_datetime(value) == IF value = NoTime \/ value = BadTime THEN NoTime ELSE value

has_local_changes(row, ms) ==
  IF ~row.present THEN FALSE
  ELSE IF ~ms.present THEN TRUE
  ELSE LET local_updated_at == _parse_datetime(row.updated_at)
           mirror_updated_at == _parse_datetime(ms.mirror_updated_at)
       IN IF mirror_updated_at = NoTime THEN TRUE
          ELSE IF local_updated_at = NoTime THEN FALSE
          ELSE local_updated_at > mirror_updated_at

has_remote_changes_unknown_as_false(remote_modified_at, ms) ==
  LET remote_dt == _parse_datetime(remote_modified_at)
      mirror_updated_at == IF ms.present THEN _parse_datetime(ms.mirror_updated_at) ELSE NoTime
  IN IF remote_dt = NoTime THEN "false"
     ELSE IF mirror_updated_at = NoTime THEN "true"
     ELSE IF remote_dt > mirror_updated_at THEN "true" ELSE "false"
has_remote_changes_not_earlier(remote_modified_at, ms) ==
  LET remote_dt == _parse_datetime(remote_modified_at)
      mirror_updated_at == IF ms.present THEN _parse_datetime(ms.mirror_updated_at) ELSE NoTime
  IN IF remote_dt = NoTime THEN "unknown"
     ELSE IF mirror_updated_at = NoTime THEN "true"
     ELSE IF remote_dt >= mirror_updated_at THEN "true" ELSE "false"
\* "true" | "false" | "unknown" for True | False | None
has_remote_changes(remote_modified_at, ms) ==
  IF remote_modified_at = NoTime THEN "unknown"
  ELSE LET remote_dt == _parse_datetime(remote_modified_at)
           mirror_updated_at == IF ms.present THEN _parse_datetime(ms.mirror_updated_at)
                                ELSE NoTime
       IN IF remote_dt = NoTime THEN "unknown"
          ELSE IF mirror_updated_at = NoTime THEN "true"
          ELSE IF remote_dt > mirror_updated_at THEN "true" ELSE "false"

Decision(a, cf, r) == [action |-> a, changed_fields |-> cf, reason |-> r]

decide_pull_action_conflict_on_remote_change(row, ms, changed_fields, remote_modified_at) ==
  IF changed_fields = <<>> THEN Decision("skip", <<>>, NONE)
  ELSE IF ~row.present THEN Decision("create", changed_fields, NONE)
  ELSE IF has_remote_changes(remote_modified_at, ms) = "true"
    THEN Decision("conflict", changed_fields, "local_changes")
  ELSE IF has_local_changes(row, ms) THEN Decision("skip", changed_fields, "local_changes")
  ELSE Decision("apply", changed_fields, NONE)
decide_pull_action_row_first(row, ms, changed_fields, remote_modified_at) ==
  IF ~row.present THEN Decision("create", changed_fields, NONE)
  ELSE IF changed_fields = <<>> THEN Decision("skip", <<>>, NONE)
  ELSE IF has_local_changes(row, ms) THEN Decision("conflict", changed_fields, "local_changes")
  ELSE Decision("apply", changed_fields, NONE)
decide_pull_action_without_create(row, ms, changed_fields, remote_modified_at) ==
  IF changed_fields = <<>> THEN Decision("skip", <<>>, NONE)
  ELSE IF has_local_changes(row, ms) THEN Decision("conflict", changed_fields, "local_changes")
  ELSE Decision("apply", changed_fields, NONE)
decide_pull_action(row, ms, changed_fields, remote_modified_at) ==
  IF changed_fields = <<>> THEN Decision("skip", <<>>, NONE)
  ELSE IF ~row.present THEN Decision("create", changed_fields, NONE)
  ELSE LET local_changed == has_local_changes(row, ms)
           remote_changed == has_remote_changes(remote_modified_at, ms)
       IN IF remote_changed = "false" /\ local_changed
            THEN Decision("skip", changed_fields, "local_changes")
          ELSE IF local_changed /\ remote_changed \in {"true", "unknown"}
            THEN Decision("conflict", changed_fields, "local_changes")
          ELSE Decision("apply", changed_fields, NONE)


\* ------------------------------------------------------------------ state
VARIABLES
  now,           \* the wall clock, in seconds
  local,         \* committed business rows, by external id
  ledger,        \* committed mirror_state rows, by external id
  tx_local,      \* the open session's view of the business rows
  tx_ledger,     \* the open session's view of mirror_state
  remote,        \* the remote records, by remote record id
  last_pull_at,  \* .sync_state.json: table -> watermark
  has_modified,  \* tables_meta: whether the table has AirtableModifiedAt
  pc,            \* where the running command is
  run,           \* the running command's locals
  prev_conflicts,\* history: the conflicts the last apply-mode pull reported, with what they saw
  pushed,        \* history: per external id, the row and the remote record of its last push
  edits, runs, failures,
  report,        \* history: what the last dry-run pull started from and returned, kept while
                 \* the rows, the ledger and the remote records are as that pull found them
  modified,      \* history: the remote records written after their table was last listed
  edited,        \* history: the row was written locally after the last ledger update of its record
  table_ids,     \* workspace config mirror.tables: table -> remote table id
  mapping,       \* the mapping file: table -> its fields map, in mapping order
  leads,         \* the sponsor_opps and campaign_members rows, by lead id
  touches,       \* the rows of the touches table, in insertion order
  touch          \* the arguments and the outcome of the running log_touch

\* the state the mirror commands read and write, and the state they leave alone
mirror_vars == <<now, local, ledger, tx_local, tx_ledger, remote, last_pull_at, has_modified,
                 pc, run, prev_conflicts, pushed, edits, runs, failures, edited, modified, report>>
workspace_vars == <<table_ids, mapping, schema>>
lead_vars == <<leads, touches, touch>>
vars == <<mirror_vars, workspace_vars, lead_vars>>

RecIds == 1..MaxRemote

NoSnapshot == [record_id |-> NoRecordId, ExternalId |-> NONE, Name |-> NONE,
               MirrorVersion |-> NoVersion, ModifiedAt |-> NoTime]
NoPush == [row |-> NoRow, rec |-> NoSnapshot]

ZeroSummary == [scanned |-> 0, skipped |-> 0, applied |-> 0, conflicts |-> 0, created |-> 0, ignored |-> 0]
NoDecision == [action |-> "none", changed_fields |-> <<>>, reason |-> NONE]
\* the locals of one iteration of the pull's record loop
NoIteration == [record |-> NoSnapshot, external_id |-> NONE, local_dict |-> NoRow,
                mirror_dict |-> NoState, changed_fields |-> <<>>,
                classified |-> NoDecision, decision |-> NoDecision]
\* the locals of one iteration of the push's row loop
NoPushIteration == [external_id |-> NONE, mirror_state |-> NoState, next_version |-> 0,
                    record_id |-> NoRecordId, now |-> NoTime]
\* an exception object: its class, its message and the attributes set on the instance
Exception(type, message) == [type |-> type, message |-> message, attrs |-> {}, status_code |-> 0]
NoException == Exception("none", "")
NoExit == 0 - 1
\* How the remote serves a listing: the size of its pages, and whether it applies the
\* formula it is sent or returns the table's full record set.
Serving(page_size, honours_filter) == [page_size |-> page_size, honours_filter |-> honours_filter]
Unpaged == Serving(MaxRemote, TRUE)

\* a workspace whose every mapped table has a remote table id
TableIds == <<"tblWidgets", "tblGadgets">>
\* a lead row of sponsor_opps or campaign_members, a call of log_touch
LeadIds == {"opp1", "mem1"}
LeadTable(id) == IF id = "opp1" THEN "sponsor_opps" ELSE "campaign_members"
NoLead == [present |-> FALSE, next_action |-> NONE, next_action_due |-> NONE,
           last_touch_at |-> NoTime, last_touch_channel |-> NONE, updated_at |-> NoTime]
\* a datetime.date is <<year, month, day>>; no date is the empty tuple
NoDate == <<>>
NoTouchCall == [state |-> "none", copy |-> "", record_id |-> "", channel |-> "", direction |-> "",
                next_action |-> NONE, due |-> NoDate, before |-> NoLead, raised |-> NoException]
\* no remote record was written since the last listing of its table by any pull, or
\* since the listing by the pull that last moved the watermark, and no pull has moved it
NoneModified == [since_listing |-> {}, since_watermark |-> {}, advanced |-> FALSE]
Modified(m, r) == [m EXCEPT !.since_listing = @ \cup {r}, !.since_watermark = @ \cup {r}]
\* no dry-run pull has returned since the rows, the ledger or the remote last changed
NoReport == [valid |-> FALSE, accept |-> {}, loaded |-> <<>>, local |-> <<>>, ledger |-> <<>>,
             remote |-> <<>>, summary |-> ZeroSummary, changes |-> <<>>]
IdleRun == [kind |-> "none", apply |-> FALSE, accept |-> {}, loaded |-> <<>>, t |-> 0,
            records |-> <<>>, rows |-> <<>>, idx |-> 0, it |-> NoIteration, pit |-> NoPushIteration,
            summary |-> ZeroSummary, changes |-> <<>>, requests |-> <<>>, seen |-> {},
            before_local |-> <<>>, before_ledger |-> <<>>,
            \* the keys whose row / ledger entry the open session has written, and those
            \* whose writes this run has committed
            dirty_local |-> {}, dirty_ledger |-> {}, done_local |-> {}, done_ledger |-> {},
            \* the exception that left pull_service.pull, the status of the remote call
            \* that failed, and the exit status of the command
            raised |-> NoException, status |-> 0, exit_code |-> NoExit,
            \* how the remote served the last listing, the requests that listing took, and
            \* the number of records the run's listings returned
            serving |-> Unpaged, calls |-> 0, listed |-> 0,
            \* the rows this push has sent, with the version, the remote record id and
            \* the remote record of each, and the remote records the push started with
            sent |-> <<>>, before_remote |-> <<>>,
            \* what a call of has_local_changes returned
            local_changed |-> FALSE,
            \* the audit logger the command was given, and the lines it has appended
            logger |-> "absent", events |-> <<>>]

Init ==
  /\ now = 0
  /\ local = [id \in Ids |-> NoRow]
  /\ ledger = [id \in Ids |-> NoState]
  /\ tx_local = local
  /\ tx_ledger = ledger
  /\ remote = [r \in RecIds |-> NoRecord]
  \* no pull yet, or one clean apply-mode pull of the empty remote at time 0
  /\ \E w \in {NoTime, 0} : last_pull_at = [i \in 1..Len(Tables) |-> w]
  /\ has_modified = [i \in 1..Len(Tables) |-> Tables[i] = "widgets"]
  /\ pc = "idle"
  /\ run = IdleRun
  /\ prev_conflicts = {}
  /\ pushed = [id \in Ids |-> NoPush]
  /\ edits = 0
  /\ runs = 0
  /\ failures = 0
  /\ modified = NoneModified
  /\ report = NoReport
  /\ edited = [id \in Ids |-> FALSE]
  /\ table_ids = TableIds
  /\ mapping = [i \in 1..Len(Tables) |-> FieldMap]
  /\ schema = Schema("text")
  /\ leads = [id \in LeadIds |-> NoLead]
  /\ touches = <<>>
  /\ touch = NoTouchCall

\* ------------------------------------------------------------ environment
utc_now_iso == now

\* the points of a run where the clock and the remote service are observed to move
Interleaves == pc = "idle" \/ (pc = "pull_table" /\ run.t > Len(Tables))

Tick ==
  /\ Interleaves
  /\ now < MaxTime
  /\ now' = now + 1
  /\ UNCHANGED <<workspace_vars, lead_vars, report, modified, edited, local, ledger, tx_local, tx_ledger, remote, last_pull_at, has_modified,
                 pc, run, prev_conflicts, pushed, edits, runs, failures>>

\* A local CRUD operation inserts or updates a row and stamps updated_at.
LocalWrite(id, v) ==
  /\ pc = "idle"
  /\ edits < MaxEdits
  /\ local' = [local EXCEPT ![id] = [present |-> TRUE, name |-> v, updated_at |-> utc_now_iso]]
  /\ tx_local' = local'
  /\ edits' = edits + 1
  /\ edited' = [edited EXCEPT ![id] = TRUE]
  /\ report' = NoReport
  /\ UNCHANGED <<workspace_vars, lead_vars, modified, now, ledger, tx_ledger, remote, last_pull_at, has_modified, pc, run,
                 prev_conflicts, pushed, runs, failures>>

FreeRecIds == {r \in RecIds : ~remote[r].present}
Min(S) == CHOOSE x \in S : \A y \in S : x <= y

ModifiedStamp(table_index) == IF has_modified[table_index] THEN now ELSE NoTime

TableIndex(t) == CHOOSE i \in 1..Len(Tables) : Tables[i] = t

\* create_record: the remote assigns the record id and stores the fields it is given
create_record(table_index, fields) ==
  [remote EXCEPT ![Min(FreeRecIds)] =
     [present |-> TRUE, table |-> Tables[table_index], ExternalId |-> fields.ExternalId,
      Name |-> fields.Name, MirrorVersion |-> fields.MirrorVersion,
      ModifiedAt |-> ModifiedStamp(table_index)]]

\* update_record: a PATCH of the given fields of one record
update_record(table_index, record_id, fields) ==
  [remote EXCEPT ![record_id] =
     [present |-> TRUE, table |-> Tables[table_index], ExternalId |-> fields.ExternalId,
      Name |-> fields.Name, MirrorVersion |-> fields.MirrorVersion,
      ModifiedAt |-> ModifiedStamp(table_index)]]

\* A person adds a record to a remote table in the remote service's own UI.
RemoteCreate(ti, ext, v) ==
  /\ Interleaves
  /\ edits < MaxEdits
  /\ FreeRecIds # {}
  /\ remote' = create_record(ti, [ExternalId |-> ext, Name |-> v, MirrorVersion |-> NoVersion])
  /\ edits' = edits + 1
  /\ modified' = Modified(modified, Min(FreeRecIds))
  /\ report' = NoReport
  /\ UNCHANGED <<workspace_vars, lead_vars, edited, now, local, ledger, tx_local, tx_ledger, last_pull_at, has_modified, pc, run,
                 prev_conflicts, pushed, runs, failures>>

\* A person edits a remote record's Name or MirrorVersion cell.
RemoteEdit(r, v, mv) ==
  /\ Interleaves
  /\ edits < MaxEdits
  /\ remote[r].present
  /\ remote' = update_record(TableIndex(remote[r].table), r,
                  [ExternalId |-> remote[r].ExternalId, Name |-> v, MirrorVersion |-> mv])
  /\ remote' # remote
  /\ edits' = edits + 1
  /\ modified' = Modified(modified, r)
  /\ report' = NoReport
  /\ UNCHANGED <<workspace_vars, lead_vars, edited, now, local, ledger, tx_local, tx_ledger, last_pull_at, has_modified, pc, run,
                 prev_conflicts, pushed, runs, failures>>


\* --------------------------------------------------------- remote listing
RECURSIVE SeqOfSet(_)
SeqOfSet(S) == IF S = {} THEN <<>> ELSE <<Min(S)>> \o SeqOfSet(S \ {Min(S)})

SnapshotOf(rem, r) == [record_id |-> r, ExternalId |-> rem[r].ExternalId, Name |-> rem[r].Name,
                       MirrorVersion |-> rem[r].MirrorVersion, ModifiedAt |-> rem[r].ModifiedAt]
Snapshot(r) == SnapshotOf(remote, r)
SnapshotSeq(rs) == [i \in 1..Len(rs) |-> Snapshot(rs[i])]

MODIFIED_FIELD == "AirtableModifiedAt"
NoFormula == [op |-> "none", field |-> "", value |-> NoTime]
\* pull.py 254-256: IS_AFTER({AirtableModifiedAt}, '<watermark>')
_modified_since_formula(iso_value) == [op |-> "IS_AFTER", field |-> MODIFIED_FIELD, value |-> iso_value]

\* the remote's evaluation of filterByFormula on one of its records
formula_matches(formula, rec) == formula.op = "IS_AFTER" => rec.ModifiedAt > formula.value

\* the records the remote selects for a listing of the table, in its order
selection(table_index, formula, serving) ==
  SnapshotSeq(SeqOfSet({r \in RecIds :
     /\ remote[r].present
     /\ remote[r].table = Tables[table_index]
     /\ (serving.honours_filter => formula_matches(formula, remote[r]))}))

\* one response of the listing endpoint: the page that starts at the offset (the first
\* page when none is sent) and the continuation offset, 0 when no record remains
page(sel, offset, page_size) ==
  LET first == IF offset = 0 THEN 1 ELSE offset
      last == IF first + page_size - 1 < Len(sel) THEN first + page_size - 1 ELSE Len(sel)
  IN [records |-> SubSeq(sel, first, last),
      offset |-> IF last < Len(sel) THEN last + 1 ELSE 0]

\* client.py 47-55: the loop over the pages, with the records and the offset so far
RECURSIVE list_pages(_, _, _, _, _)
list_pages(sel, page_size, offset, records, calls) ==
  LET data == page(sel, offset, page_size)
      got == records \o data.records
  IN IF data.offset = 0 THEN [records |-> got, calls |-> calls + 1]
     ELSE list_pages(sel, page_size, data.offset, got, calls + 1)

list_records_first_page(table_index, formula, serving) ==
  [records |-> page(selection(table_index, formula, serving), 0, serving.page_size).records,
   calls |-> 1]
\* client.py 33-56: list_records(table_id, fields, filter_formula) and the number of
\* requests it made
list_records(table_index, formula, serving) ==
  list_pages(selection(table_index, formula, serving), serving.page_size, 0, <<>>, 0)

find_record_by_external_id_first(table_index, external_id) ==
  LET found == {r \in RecIds : remote[r].present /\ remote[r].table = Tables[table_index]
                               /\ remote[r].ExternalId = external_id}
  IN IF found = {} THEN {} ELSE {Min(found)}
\* client.py 70-77: the records whose ExternalId is the given one; more than one is an error
find_record_by_external_id(table_index, external_id) ==
  {r \in RecIds : remote[r].present /\ remote[r].table = Tables[table_index]
                  /\ remote[r].ExternalId = external_id}

\* pull.py 67-72: the fields a listing asks for
query_fields(fields_map) ==
  [i \in 1..Len(fields_map) |-> fields_map[i].remote]
    \o <<"ExternalId", "MirrorVersion", "MirrorUpdatedAt", MODIFIED_FIELD>>

filter_formula_never(table_index, loaded, meta) == NoFormula
\* pull.py 73-77: the filter is on the table's watermark when the table has the field
filter_formula(table_index, loaded, meta) ==
  IF loaded[table_index] # NoTime /\ meta[table_index]
    THEN _modified_since_formula(loaded[table_index]) ELSE NoFormula

\* pull.py 172-176, mirror.py 358-362: the local field mapped to ExternalId, if any
_find_external_id_field(fields_map) ==
  LET hits == {i \in 1..Len(fields_map) : fields_map[i].remote = "ExternalId"}
  IN IF hits = {} THEN NONE ELSE fields_map[Min(hits)].local

\* pull.py 58-64: the PullError of a table the workspace or the mapping leaves unusable
table_error(ids, maps, table_index) ==
  IF ids[table_index] = NONE
    THEN Exception("PullError",
           IF Tables[table_index] = "widgets"
             THEN "Missing table id for widgets in workspace config."
             ELSE "Missing table id for gadgets in workspace config.")
  ELSE IF _find_external_id_field(maps[table_index]) = NONE
    THEN Exception("PullError",
           IF Tables[table_index] = "widgets"
             THEN "Table widgets mapping must map a field to ExternalId."
             ELSE "Table gadgets mapping must map a field to ExternalId.")
  ELSE NoException

\* ----------------------------------------------------------------- pull
Bump(summary, f) == [summary EXCEPT ![f] = @ + 1]

accept_override_never(decision, external_id, accept_remote, changed_fields) == decision
\* pull.py 109-110: the operator's accept_remote turns a conflict into apply
accept_override(decision, external_id, accept_remote, changed_fields) ==
  IF decision.action = "conflict" /\ external_id \in accept_remote
    THEN Decision("apply", changed_fields, NONE)
    ELSE decision

mutates_local_on_conflict(apply, action) == apply
mutates_local_in_dry_run(apply, action) == action # "conflict"
\* pull.py 121-133: a conflict continues before the mutation, which is under `if apply`
mutates_local(apply, action) == apply /\ action # "conflict"

counter_of_conflict_as_skipped(action) ==
  IF action = "conflict" THEN "skipped" ELSE IF action = "create" THEN "created" ELSE "applied"
\* pull.py 122, 136, 139, 164-167: the counter a reported decision increments
counter_of(action) ==
  IF action = "conflict" THEN "conflicts" ELSE IF action = "create" THEN "created" ELSE "applied"

\* pull.py 140-147: the version stored in the ledger by a pull
pull_mirror_version(remote_version, ms) ==
  IF remote_version # NoVersion /\ remote_version # BadVersion THEN remote_version
  ELSE IF ms.present THEN ms.mirror_version ELSE 0

_update_local_keeps_fields(row, rec) == [row EXCEPT !.updated_at = utc_now_iso]
\* pull.py 179-199: every mapped field takes the converted remote value
_update_local(row, rec) ==
  [present |-> TRUE, name |-> _convert_value(rec.Name, FieldType("name")), updated_at |-> utc_now_iso]

_insert_local(rec) ==
  [present |-> TRUE, name |-> _convert_value(rec.Name, FieldType("name")), updated_at |-> utc_now_iso]

upsert_mirror_state(record_id, mirror_version, mirror_updated_at) ==
  [present |-> TRUE, record_id |-> record_id, mirror_version |-> mirror_version,
   mirror_updated_at |-> mirror_updated_at]

Change(t, id, d, cf) ==
  [table |-> t, external_id |-> id, action |-> d.action, changed_fields |-> cf, reason |-> d.reason]

\* How pull_records is given its audit logger: None, an EventLogger with enabled=False,
\* or an EventLogger with enabled=True.
Loggers == {"absent", "disabled", "enabled"}

\* events.py 27-35: the payload of one line of the audit log
Event(event_type, entity_type, external_id, changed_fields, conflict) ==
  [ts |-> utc_now_iso, entity_type |-> entity_type, external_id |-> external_id,
   event_type |-> event_type, changed_fields |-> changed_fields, conflict |-> conflict]

logger_log_unguarded(logger, events, event) ==
  IF logger = "absent"
    THEN [raised |-> Exception("AttributeError", "'NoneType' object has no attribute 'log'"),
          events |-> events]
  ELSE IF logger = "disabled" THEN [raised |-> NoException, events |-> events]
  ELSE [raised |-> NoException, events |-> Append(events, event)]
\* pull.py 123-124, 155-156 and events.py 16-38: the call is made when a logger was
\* given, and appends one line when the logger is enabled
logger_log(logger, events, event) ==
  IF logger = "absent" THEN [raised |-> NoException, events |-> events]
  ELSE IF logger = "disabled" THEN [raised |-> NoException, events |-> events]
  ELSE [raised |-> NoException, events |-> Append(events, event)]

\* pull_service.pull 46-53 and the entry of pull_records
PullStartLogged(apply, accept, logger) ==
  /\ pc = "idle"
  /\ runs < MaxRuns
  /\ runs' = runs + 1
  /\ pc' = "pull_table"
  /\ run' = [IdleRun EXCEPT !.kind = "pull", !.apply = apply, !.accept = accept,
                            !.logger = logger,
                            !.loaded = last_pull_at, !.t = 1,
                            !.before_local = local, !.before_ledger = ledger,
                            !.before_remote = remote]
  /\ UNCHANGED <<workspace_vars, lead_vars, report, modified, edited, now, local, ledger, tx_local, tx_ledger, remote, last_pull_at, has_modified,
                 prev_conflicts, pushed, edits, failures>>

\* a pull that is given no logger (the default of pull_service.pull)
PullStart(apply, accept) == PullStartLogged(apply, accept, "absent")

\* pull.py 57-80: list the table's records, then open the session
PullListTable(serving) ==
  /\ pc = "pull_table"
  /\ run.t <= Len(Tables)
  /\ table_error(table_ids, mapping, run.t) = NoException
  /\ LET f == filter_formula(run.t, run.loaded, has_modified)
         listing == list_records(run.t, f, serving)
     IN run' = [run EXCEPT !.records = listing.records, !.idx = 1,
                           !.serving = serving, !.calls = listing.calls,
                           !.listed = @ + Len(listing.records),
                           !.requests = Append(@, [table |-> Tables[run.t],
                                                   fields |-> query_fields(mapping[run.t]),
                                                   filter |-> f])]
  /\ pc' = "pull_record"
  /\ modified' = [modified EXCEPT !.since_listing = {r \in @ : remote[r].table # Tables[run.t]}]
  /\ UNCHANGED <<workspace_vars, lead_vars, report, edited, now, local, ledger, tx_local, tx_ledger, remote, last_pull_at, has_modified,
                 prev_conflicts, pushed, edits, runs, failures>>

\* client.py 79-84: a response with a status of 400 or more raises AirtableError,
\* built from the message alone
StatusMessage(status) ==
  IF status = 401 THEN "Airtable error 401"
  ELSE IF status = 403 THEN "Airtable error 403" ELSE "Airtable error 500"
_request(status) ==
  IF status >= 400 THEN Exception("AirtableError", StatusMessage(status)) ELSE NoException

AuthMessage == "Airtable auth/permission error; check PAT scopes and base access."
\* pull_service.py 66-70: the handler of AirtableError reads exc.status_code
on_airtable_error(exc) ==
  IF "status_code" \notin exc.attrs
    THEN Exception("AttributeError", "'AirtableError' object has no attribute 'status_code'")
  ELSE IF exc.status_code \in {401, 403} THEN Exception("PullServiceError", AuthMessage)
  ELSE Exception("PullServiceError", exc.message)

\* cli.py 409-434, 521-523: PullServiceError exits through _exit_with_error, any other
\* exception ends the interpreter, a returned summary with conflicts raises Exit(1)
sync_pull_exit(raised, summary) ==
  IF raised.type = "PullServiceError" THEN 1
  ELSE IF raised.type # "none" THEN 1
  ELSE IF summary.conflicts > 0 THEN 1
  ELSE 0

\* pull.py 134-139: the row written for a create or an apply
local_write(session_rows, external_id, decision, row, rec) ==
  [session_rows EXCEPT ![external_id] =
     IF decision.action = "create" THEN _insert_local(rec) ELSE _update_local(row, rec)]

\* pull.py 140-154: the ledger entry written after the row
ledger_write(session_ledger, external_id, rec, ms) ==
  [session_ledger EXCEPT ![external_id] =
     upsert_mirror_state(rec.record_id, pull_mirror_version(rec.MirrorVersion, ms), utc_now_iso)]

session_exit_commits_on_error(committed, session, ok) == session
\* sqlite.py 56-68: leaving the connection commits, or rolls back when an exception
\* passes through
session_exit(committed, session, ok) == IF ok THEN session ELSE committed

next_record_stops_at_conflict(idx, n, action) == IF action = "conflict" THEN n + 1 ELSE idx + 1
\* pull.py 81, 108, 131: every branch of the loop body goes on with the next record
next_record(idx, n, action) == idx + 1

count_ignored_as_skipped(summary) == Bump(Bump(summary, "scanned"), "skipped")
\* pull.py 82-86: a record without a join key is scanned and ignored
count_ignored(summary) == Bump(Bump(summary, "scanned"), "ignored")

\* pull.py 81-167: one iteration of the record loop on the run's locals and the open
\* session: the locals and the session's rows and ledger after it, and the exception
\* that left it, if any
iteration(r, session_rows, session_ledger) ==
  LET rec == r.records[r.idx]
      external_id == rec.ExternalId
      scanned == Bump(r.summary, "scanned")
  IN IF external_id = NONE \/ external_id = ""
     THEN [run |-> [r EXCEPT !.idx = next_record(@, Len(r.records), "ignored"),
                             !.summary = count_ignored(r.summary),
                             !.it = [NoIteration EXCEPT !.record = rec]],
           tx_local |-> session_rows, tx_ledger |-> session_ledger, raised |-> NoException]
     ELSE LET row == session_rows[external_id]
              ms == session_ledger[external_id]
              changed_fields == diff_fields(row, external_id, rec)
              \* remote_modified_at is not passed by pull_records: it defaults to None
              first == decide_pull_action(row, ms, changed_fields, NoTime)
              decision == accept_override(first, external_id, r.accept, changed_fields)
              change == Change(Tables[r.t], external_id, decision, changed_fields)
              it == [record |-> rec, external_id |-> external_id, local_dict |-> row,
                     mirror_dict |-> ms, changed_fields |-> changed_fields,
                     classified |-> first, decision |-> decision]
              mutates == mutates_local(r.apply, decision.action)
              logged == IF decision.action = "conflict"
                          THEN logger_log(r.logger, r.events,
                                 Event("pull_conflict", Tables[r.t], external_id, changed_fields, TRUE))
                        ELSE IF mutates
                          THEN logger_log(r.logger, r.events,
                                 Event("pull_apply", Tables[r.t], external_id, changed_fields, FALSE))
                        ELSE [raised |-> NoException, events |-> r.events]
          IN IF first.action = "skip"
             THEN [run |-> [r EXCEPT !.idx = next_record(@, Len(r.records), "skip"),
                                     !.summary = Bump(scanned, "skipped"),
                                     !.it = it],
                   tx_local |-> session_rows, tx_ledger |-> session_ledger,
                   raised |-> NoException]
             ELSE [run |-> [r EXCEPT
                              !.idx = next_record(@, Len(r.records), decision.action),
                              !.summary = Bump(scanned, counter_of(decision.action)),
                              !.it = it,
                              !.dirty_local = IF mutates THEN @ \cup {external_id} ELSE @,
                              !.dirty_ledger = IF mutates THEN @ \cup {external_id} ELSE @,
                              !.changes = Append(@, change),
                              !.events = logged.events,
                              !.seen = IF decision.action = "conflict"
                                         THEN @ \cup {[id |-> external_id, rec |-> rec,
                                                        row |-> row, ms |-> ms]}
                                         ELSE @],
                   tx_local |-> IF mutates
                                  THEN local_write(session_rows, external_id, decision, row, rec)
                                  ELSE session_rows,
                   tx_ledger |-> IF mutates
                                   THEN ledger_write(session_ledger, external_id, rec, ms)
                                   ELSE session_ledger,
                   raised |-> logged.raised]

\* pull.py 81-167 with sqlite.py 56-68: the loop runs one iteration; an exception that
\* leaves it leaves the table's session, which rolls back, and then the command
PullRecord ==
  /\ pc = "pull_record"
  /\ run.idx <= Len(run.records)
  /\ LET out == iteration(run, tx_local, tx_ledger)
     IN IF out.raised = NoException
        THEN /\ run' = out.run
             /\ tx_local' = out.tx_local
             /\ tx_ledger' = out.tx_ledger
             /\ UNCHANGED <<local, ledger, pc>>
        ELSE /\ local' = session_exit(local, out.tx_local, FALSE)
             /\ ledger' = session_exit(ledger, out.tx_ledger, FALSE)
             /\ tx_local' = local'
             /\ tx_ledger' = ledger'
             /\ pc' = "pull_failed"
             /\ run' = [out.run EXCEPT
                          !.done_local = session_exit(run.done_local, out.run.dirty_local, FALSE),
                          !.done_ledger = session_exit(run.done_ledger, out.run.dirty_ledger, FALSE),
                          !.dirty_local = {}, !.dirty_ledger = {},
                          !.raised = out.raised,
                          !.exit_code = sync_pull_exit(out.raised, out.run.summary)]
  /\ UNCHANGED <<workspace_vars, lead_vars, report, modified, edited, now, remote, last_pull_at, has_modified,
                 prev_conflicts, pushed, edits, runs, failures>>

\* the statements of a create or an apply that can raise: the row's INSERT / UPDATE,
\* or the ledger upsert after it
Stages == {"row", "ledger"}

\* pull.py 133-154 with sqlite.py 56-68: a statement of the record's mutation raises,
\* the exception leaves the table's session, which rolls back, and then leaves
\* pull_records and pull_service.pull, which catch AirtableError and PullError only
PullRecordFails(stage) ==
  /\ pc = "pull_record"
  /\ run.idx <= Len(run.records)
  /\ LET rec == run.records[run.idx]
         external_id == rec.ExternalId
     IN /\ external_id # NONE /\ external_id # ""
        /\ LET row == tx_local[external_id]
               ms == tx_ledger[external_id]
               changed_fields == diff_fields(row, external_id, rec)
               first == decide_pull_action(row, ms, changed_fields, NoTime)
               decision == accept_override(first, external_id, run.accept, changed_fields)
               session_rows == IF stage = "ledger"
                                 THEN local_write(tx_local, external_id, decision, row, rec)
                                 ELSE tx_local
               written == IF stage = "ledger" THEN {external_id} ELSE {}
               raised == Exception("sqlite3.Error", stage)
           IN /\ first.action # "skip"
              /\ mutates_local(run.apply, decision.action)
              /\ local' = session_exit(local, session_rows, FALSE)
              /\ ledger' = session_exit(ledger, tx_ledger, FALSE)
              /\ run' = [run EXCEPT
                           !.it = [record |-> rec, external_id |-> external_id,
                                   local_dict |-> row, mirror_dict |-> ms,
                                   changed_fields |-> changed_fields,
                                   classified |-> first, decision |-> decision],
                           !.done_local = session_exit(@, @ \cup run.dirty_local \cup written, FALSE),
                           !.done_ledger = session_exit(@, @ \cup run.dirty_ledger, FALSE),
                           !.dirty_local = {}, !.dirty_ledger = {},
                           !.raised = raised,
                           !.exit_code = sync_pull_exit(raised, run.summary)]
  /\ tx_local' = local'
  /\ tx_ledger' = ledger'
  /\ pc' = "pull_failed"
  /\ UNCHANGED <<workspace_vars, lead_vars, report, modified, edited, now, remote, last_pull_at, has_modified, prev_conflicts, pushed, edits, runs, failures>>

\* sqlite.py 55-73: leaving the session commits the table's changes
PullCommit ==
  /\ pc = "pull_record"
  /\ run.idx > Len(run.records)
  /\ local' = session_exit(local, tx_local, TRUE)
  /\ ledger' = session_exit(ledger, tx_ledger, TRUE)
  /\ run' = [run EXCEPT !.t = @ + 1, !.records = <<>>, !.idx = 0, !.it = NoIteration,
                        !.done_local = session_exit(@, @ \cup run.dirty_local, TRUE),
                        !.done_ledger = session_exit(@, @ \cup run.dirty_ledger, TRUE),
                        !.dirty_local = {}, !.dirty_ledger = {}]
  /\ pc' = "pull_table"
  /\ edited' = [id \in DOMAIN edited |-> edited[id] /\ id \notin run.dirty_ledger]
  /\ UNCHANGED <<workspace_vars, lead_vars, report, modified, now, tx_local, tx_ledger, remote, last_pull_at, has_modified,
                 prev_conflicts, pushed, edits, runs, failures>>

advances_watermark_in_dry_run(apply, summary) == summary.conflicts = 0
advances_watermark_despite_conflicts(apply, summary) == apply
\* pull_service.pull 74-81: the watermark moves after a clean apply run
advances_watermark(apply, summary) == apply /\ summary.conflicts = 0

PullFinish ==
  /\ pc = "pull_table"
  /\ run.t > Len(Tables)
  /\ last_pull_at' = IF advances_watermark(run.apply, run.summary)
                       THEN [i \in 1..Len(Tables) |-> utc_now_iso]
                       ELSE last_pull_at
  /\ pc' = "pull_done"
  /\ run' = [run EXCEPT !.exit_code = sync_pull_exit(NoException, run.summary)]
  /\ modified' = IF advances_watermark(run.apply, run.summary)
                   THEN [modified EXCEPT !.since_watermark = modified.since_listing,
                                         !.advanced = TRUE]
                   ELSE modified
  /\ UNCHANGED <<workspace_vars, lead_vars, report, edited, now, local, ledger, tx_local, tx_ledger, remote, has_modified,
                 prev_conflicts, pushed, edits, runs, failures>>

\* pull_service.py 46-47 and cli.py 421-422: without AIRTABLE_API_KEY the pull raises
\* PullServiceError before any remote call and before its arguments are used
PullStartFails ==
  /\ pc = "idle"
  /\ runs < MaxRuns
  /\ runs' = runs + 1
  /\ pc' = "pull_failed"
  /\ LET raised == Exception("PullServiceError", "AIRTABLE_API_KEY is not set.")
     IN run' = [IdleRun EXCEPT !.kind = "pull",
                               !.before_local = local, !.before_ledger = ledger,
                               !.raised = raised,
                               !.exit_code = sync_pull_exit(raised, ZeroSummary)]
  /\ UNCHANGED <<workspace_vars, lead_vars, report, modified, edited, now, local, ledger, tx_local, tx_ledger, remote, last_pull_at, has_modified,
                 prev_conflicts, pushed, edits, failures>>

\* client.py 33-56, 79-84 and pull_service.py 53-70: the listing of a table gets an
\* error status; no session is open, and pull_service.pull handles the AirtableError
PullListFails(status) ==
  /\ pc = "pull_table"
  /\ run.t <= Len(Tables)
  /\ pc' = "pull_failed"
  /\ LET raised == on_airtable_error(_request(status))
     IN run' = [run EXCEPT !.status = status, !.raised = raised,
                           !.exit_code = sync_pull_exit(raised, run.summary)]
  /\ UNCHANGED <<workspace_vars, lead_vars, report, modified, edited, now, local, ledger, tx_local, tx_ledger, remote, last_pull_at, has_modified,
                 prev_conflicts, pushed, edits, runs, failures>>

on_pull_error_reraised(exc) == exc
\* pull_service.py 71-72: PullError is surfaced as PullServiceError with its message
on_pull_error(exc) == Exception("PullServiceError", exc.message)

\* pull.py 57-64 and pull_service.py 71-72: the table has no table id in the workspace
\* config, or its mapping maps no field to ExternalId; pull_records raises PullError
\* before the table's listing
PullConfigFails ==
  /\ pc = "pull_table"
  /\ run.t <= Len(Tables)
  /\ table_error(table_ids, mapping, run.t) # NoException
  /\ pc' = "pull_failed"
  /\ LET raised == on_pull_error(table_error(table_ids, mapping, run.t))
     IN run' = [run EXCEPT !.raised = raised,
                           !.exit_code = sync_pull_exit(raised, run.summary)]
  /\ UNCHANGED <<workspace_vars, lead_vars, report, modified, edited, now, local, ledger, tx_local, tx_ledger, remote, last_pull_at,
                 has_modified, prev_conflicts, pushed, edits, runs, failures>>

\* the exception leaves the command: nothing is returned to the caller
PullRaise ==
  /\ pc = "pull_failed"
  /\ pc' = "idle"
  /\ run' = IdleRun
  /\ UNCHANGED <<workspace_vars, lead_vars, report, modified, edited, now, local, ledger, tx_local, tx_ledger, remote, last_pull_at, has_modified,
                 prev_conflicts, pushed, edits, runs, failures>>

\* the command returns its summary and change list to the caller
PullReturn ==
  /\ pc = "pull_done"
  /\ pc' = "idle"
  /\ run' = IdleRun
  /\ prev_conflicts' = IF run.apply THEN run.seen ELSE prev_conflicts
  /\ report' = IF run.apply \/ remote # run.before_remote THEN NoReport
               ELSE [valid |-> TRUE, accept |-> run.accept, loaded |-> run.loaded,
                     local |-> run.before_local, ledger |-> run.before_ledger,
                     remote |-> run.before_remote, summary |-> run.summary,
                     changes |-> run.changes]
  /\ UNCHANGED <<workspace_vars, lead_vars, modified, edited, now, local, ledger, tx_local, tx_ledger, remote, last_pull_at, has_modified,
                 pushed, edits, runs, failures>>

\* ----------------------------------------------------------------- push
next_version_kept(ms) == IF ms.present THEN ms.mirror_version ELSE 1
\* mirror.py 325: the version a push writes
next_version(ms) == IF ms.present THEN ms.mirror_version + 1 ELSE 1

airtable_fields_without_name(id, row, version) ==
  [ExternalId |-> id, Name |-> NONE, MirrorVersion |-> version]
\* mirror.py 328-333: the payload of one row
airtable_fields(id, row, version) ==
  [ExternalId |-> id, Name |-> _serialize_value(row.name), MirrorVersion |-> version]

\* the order in which SELECT * returns the rows that exist
RowOrder == <<"w1", "w2", "g1">>
\* mirror.py 321: SELECT * FROM table
fetch_all(table_index) ==
  SelectSeq(RowOrder, LAMBDA id : /\ id \in DOMAIN tx_local
                                  /\ TableOf(id) = Tables[table_index]
                                  /\ tx_local[id].present)

\* sync.push / push_all entry
PushStart ==
  /\ pc = "idle"
  /\ runs < MaxRuns
  /\ runs' = runs + 1
  /\ pc' = "push_table"
  /\ run' = [IdleRun EXCEPT !.kind = "push", !.t = 1,
                            !.before_local = local, !.before_ledger = ledger,
                            !.before_remote = remote]
  /\ UNCHANGED <<workspace_vars, lead_vars, report, modified, edited, now, local, ledger, tx_local, tx_ledger, remote, last_pull_at, has_modified,
                 prev_conflicts, pushed, edits, failures>>

\* mirror.py 149-153, 316-321: open the table's session and read its rows
PushBeginTable ==
  /\ pc = "push_table"
  /\ run.t <= Len(Tables)
  /\ run' = [run EXCEPT !.rows = fetch_all(run.t), !.idx = 1]
  /\ pc' = "push_row"
  /\ UNCHANGED <<workspace_vars, lead_vars, report, modified, edited, now, local, ledger, tx_local, tx_ledger, remote, last_pull_at, has_modified,
                 prev_conflicts, pushed, edits, runs, failures>>

\* the remote call of this row cannot succeed: duplicates of the join key, or no room
PushMustFail ==
  LET id == run.rows[run.idx]
      found == find_record_by_external_id(run.t, id)
  IN Cardinality(found) > 1 \/ (found = {} /\ FreeRecIds = {})

\* mirror.py 322-347: one row, found or created remotely, then the ledger upsert
PushRow ==
  /\ pc = "push_row"
  /\ run.idx <= Len(run.rows)
  /\ ~PushMustFail
  /\ LET id == run.rows[run.idx]
         ms == tx_ledger[id]
         version == next_version(ms)
         fields == airtable_fields(id, tx_local[id], version)
         found == find_record_by_external_id(run.t, id)
         record_id == IF found = {} THEN Min(FreeRecIds) ELSE Min(found)
     IN /\ remote' = IF found = {} THEN create_record(run.t, fields)
                                   ELSE update_record(run.t, record_id, fields)
        /\ tx_ledger' = [tx_ledger EXCEPT ![id] = upsert_mirror_state(record_id, version, utc_now_iso)]
        /\ pushed' = [pushed EXCEPT ![id] = [row |-> tx_local[id], rec |-> SnapshotOf(remote', record_id)]]
        /\ run' = [run EXCEPT !.idx = @ + 1,
                              !.pit = [external_id |-> id, mirror_state |-> ms,
                                       next_version |-> version, record_id |-> record_id,
                                       now |-> utc_now_iso],
                              !.sent = Append(@, [external_id |-> id, version |-> version,
                                                  record_id |-> record_id,
                                                  rec |-> SnapshotOf(remote', record_id)])]
  /\ modified' = Modified(modified, IF find_record_by_external_id(run.t, run.rows[run.idx]) = {}
                                      THEN Min(FreeRecIds)
                                      ELSE Min(find_record_by_external_id(run.t, run.rows[run.idx])))
  /\ report' = NoReport
  /\ UNCHANGED <<workspace_vars, lead_vars, edited, now, local, ledger, tx_local, last_pull_at, has_modified, pc,
                 prev_conflicts, edits, runs, failures>>

\* client.py 76 and 82-83: the AirtableError of the row's remote call
push_remote_error ==
  LET id == run.rows[run.idx]
  IN IF Cardinality(find_record_by_external_id(run.t, id)) > 1
       THEN Exception("AirtableError", "Multiple Airtable records found for ExternalId.")
       ELSE _request(500)

\* mirror.py 344-345: AirtableError is raised again as MirrorError with its message
on_push_error(exc) == Exception("MirrorError", exc.message)

\* mirror.py 335-345 with sqlite.py 64-66: the row's remote call fails, the MirrorError
\* leaves the table's session, which rolls back, and then leaves push_all
PushRowFails ==
  /\ pc = "push_row"
  /\ run.idx <= Len(run.rows)
  /\ \/ PushMustFail /\ UNCHANGED failures
     \/ ~PushMustFail /\ failures < MaxFailures /\ failures' = failures + 1
  /\ ledger' = session_exit(ledger, tx_ledger, FALSE)
  /\ tx_ledger' = ledger'
  /\ tx_local' = local
  /\ pc' = "push_failed"
  /\ run' = [run EXCEPT !.raised = on_push_error(push_remote_error),
                        !.pit = [NoPushIteration EXCEPT !.external_id = run.rows[run.idx],
                                                        !.mirror_state = tx_ledger[run.rows[run.idx]]]]
  /\ UNCHANGED <<workspace_vars, lead_vars, report, modified, edited, now, local, remote, last_pull_at, has_modified,
                 prev_conflicts, pushed, edits, runs>>

\* the MirrorError leaves the command
PushRaise ==
  /\ pc = "push_failed"
  /\ pc' = "idle"
  /\ run' = IdleRun
  /\ UNCHANGED <<workspace_vars, lead_vars, report, modified, edited, now, local, ledger, tx_local, tx_ledger, remote, last_pull_at,
                 has_modified, prev_conflicts, pushed, edits, runs, failures>>

\* sqlite.py 62-63: the table's session commits
PushCommit ==
  /\ pc = "push_row"
  /\ run.idx > Len(run.rows)
  /\ ledger' = session_exit(ledger, tx_ledger, TRUE)
  /\ run' = [run EXCEPT !.t = @ + 1, !.rows = <<>>, !.idx = 0, !.pit = NoPushIteration]
  /\ pc' = "push_table"
  /\ edited' = [id \in DOMAIN edited |-> edited[id] /\ id \notin {run.rows[i] : i \in 1..Len(run.rows)}]
  /\ UNCHANGED <<workspace_vars, lead_vars, report, modified, now, local, tx_local, tx_ledger, remote, last_pull_at, has_modified,
                 prev_conflicts, pushed, edits, runs, failures>>

PushFinish ==
  /\ pc = "push_table"
  /\ run.t > Len(Tables)
  /\ pc' = "idle"
  /\ run' = IdleRun
  /\ UNCHANGED <<workspace_vars, lead_vars, report, modified, edited, now, local, ledger, tx_local, tx_ledger, remote, last_pull_at, has_modified,
                 prev_conflicts, pushed, edits, runs, failures>>

\* cli.py 446-485: `open airtable` looks the record up remotely when the ledger has no
\* record id for it, and remembers it with version 0 and no timestamp
OpenAirtable(id) ==
  /\ pc = "idle"
  /\ runs < MaxRuns
  /\ ~(ledger[id].present /\ ledger[id].record_id # NoRecordId)
  /\ LET found == find_record_by_external_id(TableIndex(TableOf(id)), id)
     IN /\ Cardinality(found) = 1
        /\ ledger' = [ledger EXCEPT ![id] = upsert_mirror_state(Min(found), 0, NoTime)]
  /\ tx_ledger' = ledger'
  /\ runs' = runs + 1
  /\ edited' = [edited EXCEPT ![id] = FALSE]
  /\ report' = NoReport
  /\ UNCHANGED <<workspace_vars, lead_vars, modified, now, local, tx_local, remote, last_pull_at, has_modified, pc, run,
                 prev_conflicts, pushed, edits, failures>>

AcceptSets == {{}, {"w1"}}

Next ==
  \/ Tick
  \/ \E id \in Ids, v \in LocalNames : LocalWrite(id, v)
  \/ \E ti \in 1..Len(Tables), ext \in Ids \cup {NONE}, v \in RemoteNames :
        (ext # NONE => TableOf(ext) = Tables[ti]) /\ RemoteCreate(ti, ext, v)
  \/ \E r \in RecIds, v \in RemoteNames :
        \E mv \in RemoteVersions \cup {remote[r].MirrorVersion} : RemoteEdit(r, v, mv)
  \/ \E apply \in BOOLEAN, accept \in AcceptSets : PullStart(apply, accept)
  \/ PullListTable(Unpaged)
  \/ PullRecord
  \/ PullCommit
  \/ PullFinish
  \/ PullReturn
  \/ PullStartFails
  \/ \E status \in {401, 403, 500} : PullListFails(status)
  \/ \E stage \in Stages : PullRecordFails(stage)
  \/ PullRaise
  \/ PushStart
  \/ PushBeginTable
  \/ PushRow
  \/ PushRowFails
  \/ PushRaise
  \/ PushCommit
  \/ PushFinish
  \/ \E id \in Ids : OpenAirtable(id)

Spec == Init /\ [][Next]_vars

\* --------------------------------------- decide_pull_action on its own
\* the arguments of a call of decide_pull_action: any row, ledger entry, changed-field
\* list and remote-modified value, timestamps missing and unparsable included
Stamps == {NoTime, BadTime} \cup (0..MaxTime)
DecideRows == {NoRow} \cup {[present |-> TRUE, name |-> "Alpha", updated_at |-> t] : t \in Stamps}
DecideStates == {NoState} \cup {upsert_mirror_state(1, 1, t) : t \in Stamps}
DecideChanged == {<<>>, <<"name">>, <<"id", "name">>}

InitDecide ==
  /\ now = 0
  /\ local = [id \in Ids |-> NoRow]
  /\ ledger = [id \in Ids |-> NoState]
  /\ tx_local = local
  /\ tx_ledger = ledger
  /\ remote = [r \in RecIds |-> NoRecord]
  /\ last_pull_at = [i \in 1..Len(Tables) |-> NoTime]
  /\ has_modified = [i \in 1..Len(Tables) |-> Tables[i] = "widgets"]
  /\ pc = "decide_call"
  /\ \E row \in DecideRows, ms \in DecideStates, cf \in DecideChanged, rm \in Stamps :
       run = [IdleRun EXCEPT !.kind = "decide",
                 !.it = [NoIteration EXCEPT !.local_dict = row, !.mirror_dict = ms,
                                            !.changed_fields = cf,
                                            !.record = [NoSnapshot EXCEPT !.ModifiedAt = rm]]]
  /\ prev_conflicts = {}
  /\ pushed = [id \in Ids |-> NoPush]
  /\ edits = 0
  /\ runs = 0
  /\ failures = 0
  /\ modified = NoneModified
  /\ report = NoReport
  /\ edited = [id \in Ids |-> FALSE]
  /\ table_ids = TableIds
  /\ mapping = [i \in 1..Len(Tables) |-> FieldMap]
  /\ schema = Schema("text")
  /\ leads = [id \in LeadIds |-> NoLead]
  /\ touches = <<>>
  /\ touch = NoTouchCall

\* services/pull.py 51-70: the call returns its decision
DecideCall ==
  /\ pc = "decide_call"
  /\ pc' = "decide_return"
  /\ run' = [run EXCEPT !.it.classified =
                decide_pull_action(run.it.local_dict, run.it.mirror_dict,
                                   run.it.changed_fields, run.it.record.ModifiedAt)]
  /\ UNCHANGED <<workspace_vars, lead_vars, report, modified, edited, now, local, ledger, tx_local, tx_ledger, remote, last_pull_at, has_modified,
                 prev_conflicts, pushed, edits, runs, failures>>

\* services/pull.py 37-48: a call of has_local_changes returns
HasLocalChangesCall ==
  /\ pc = "decide_call"
  /\ pc' = "changes_return"
  /\ run' = [run EXCEPT !.local_changed = has_local_changes(run.it.local_dict, run.it.mirror_dict)]
  /\ UNCHANGED <<workspace_vars, lead_vars, report, modified, edited, now, local, ledger, tx_local, tx_ledger, remote, last_pull_at, has_modified,
                 prev_conflicts, pushed, edits, runs, failures>>

NextDecide == DecideCall \/ HasLocalChangesCall

SpecDecide == InitDecide /\ [][NextDecide]_vars

\* ------------------------------------------------------------ lead touches
\* stages.py 43-53
TouchChannel == {"email", "call", "meeting", "linkedin", "other"}
TouchDirection == {"outbound", "inbound"}

\* date.isoformat()
isoformat(d) == IF d = <<2026, 1, 20>> THEN "2026-01-20" ELSE "2026-02-01"

\* rules.py 16-20
validate_enum(value, allowed, field) ==
  IF value = NONE \/ value \in allowed THEN NoException
  ELSE Exception("ValidationError", field)

\* touch.py: the lead the record id names, a sponsor opportunity or a campaign member
_resolve_target(record_id) ==
  IF record_id \in LeadIds /\ leads[record_id].present THEN LeadTable(record_id) ELSE NONE

\* src/crm/services/touch.py 110-131: the UPDATE of the lead row sets next_action and
\* next_action_due only when a value is given
_update_next_action(row, channel, stamp, next_action, due) ==
  [row EXCEPT !.last_touch_at = stamp, !.last_touch_channel = channel, !.updated_at = stamp,
              !.next_action = IF next_action # NONE THEN next_action ELSE @,
              !.next_action_due = IF due # NoDate THEN isoformat(due) ELSE @]

\* crm/services/touch.py 59-71: the UPDATE of the lead row binds next_action and the
\* due value as they were passed
update_lead(row, channel, stamp, next_action, due) ==
  [row EXCEPT !.last_touch_at = stamp, !.last_touch_channel = channel, !.updated_at = stamp,
              !.next_action = next_action,
              !.next_action_due = IF due # NoDate THEN isoformat(due) ELSE NONE]

\* The repository holds two copies of services/touch.py, crm/services/touch.py and
\* src/crm/services/touch.py; the one a caller of crm.services.touch gets depends on
\* the path the package is imported from.
TouchCopies == {"crm/services/touch.py", "src/crm/services/touch.py"}

\* the row INSERTed into touches
TouchRow(record_id, channel, direction, stamp) ==
  [occurred_at |-> stamp, channel |-> channel, direction |-> direction,
   opp_id |-> IF LeadTable(record_id) = "sponsor_opps" THEN record_id ELSE NONE,
   member_id |-> IF LeadTable(record_id) = "campaign_members" THEN record_id ELSE NONE,
   created_at |-> stamp, updated_at |-> stamp]

\* log_touch(store, record_id, channel, direction, subject, note, next_action, due)
log_touch(copy, record_id, channel, direction, next_action, due) ==
  LET invalid == IF validate_enum(channel, TouchChannel, "channel") # NoException
                   THEN validate_enum(channel, TouchChannel, "channel")
                   ELSE validate_enum(direction, TouchDirection, "direction")
      call == [state |-> "done", copy |-> copy, record_id |-> record_id, channel |-> channel,
               direction |-> direction, next_action |-> next_action, due |-> due,
               before |-> NoLead, raised |-> NoException]
  IN IF invalid # NoException
       THEN /\ touch' = [call EXCEPT !.state = "raised", !.raised = invalid]
            /\ UNCHANGED <<leads, touches>>
     ELSE IF _resolve_target(record_id) = NONE
       THEN /\ touch' = [call EXCEPT !.state = "raised",
                           !.raised = Exception("TouchError",
                              "Lead ID not found in sponsor_opps or campaign_members.")]
            /\ UNCHANGED <<leads, touches>>
     ELSE /\ touch' = [call EXCEPT !.before = leads[record_id]]
          /\ touches' = Append(touches, TouchRow(record_id, channel, direction, utc_now_iso))
          /\ leads' = [leads EXCEPT ![record_id] =
                         IF copy = "src/crm/services/touch.py"
                           THEN _update_next_action(@, channel, utc_now_iso, next_action, due)
                           ELSE update_lead(@, channel, utc_now_iso, next_action, due)]

\* cli `lead touch`: one call of log_touch
LogTouch(copy, record_id, channel, direction, next_action, due) ==
  /\ touch.state = "none"
  /\ log_touch(copy, record_id, channel, direction, next_action, due)
  /\ UNCHANGED <<mirror_vars, workspace_vars>>

\* leads.add_sponsor_lead / add_attendee_lead: the lead rows a touch can find
Lead(next_action, due) ==
  [present |-> TRUE, next_action |-> next_action,
   next_action_due |-> IF due # NoDate THEN isoformat(due) ELSE NONE,
   last_touch_at |-> NoTime, last_touch_channel |-> NONE, updated_at |-> 0]
SeedLeads == {NoLead} \cup {Lead(na, due) : na \in {NONE, "Send deck"}, due \in {NoDate, <<2026, 1, 20>>}}

InitTouch ==
  /\ now = MaxTime
  /\ local = [id \in Ids |-> NoRow]
  /\ ledger = [id \in Ids |-> NoState]
  /\ tx_local = local
  /\ tx_ledger = ledger
  /\ remote = [r \in RecIds |-> NoRecord]
  /\ last_pull_at = [i \in 1..Len(Tables) |-> NoTime]
  /\ has_modified = [i \in 1..Len(Tables) |-> Tables[i] = "widgets"]
  /\ table_ids = TableIds
  /\ mapping = [i \in 1..Len(Tables) |-> FieldMap]
  /\ schema = Schema("text")
  /\ pc = "idle"
  /\ run = IdleRun
  /\ prev_conflicts = {}
  /\ pushed = [id \in Ids |-> NoPush]
  /\ edits = 0
  /\ runs = 0
  /\ failures = 0
  /\ modified = NoneModified
  /\ report = NoReport
  /\ edited = [id \in Ids |-> FALSE]
  /\ leads \in [LeadIds -> SeedLeads]
  /\ touches = <<>>
  /\ touch = NoTouchCall

NextTouch ==
  \E copy \in TouchCopies, record_id \in LeadIds \cup {"nobody"}, channel \in {"email", "fax"},
     direction \in {"outbound"}, next_action \in {NONE, "Call back"},
     due \in {NoDate, <<2026, 2, 1>>} :
       LogTouch(copy, record_id, channel, direction, next_action, due)

SpecTouch == InitTouch /\ [][NextTouch]_vars

\* ------------------------------------------------ pulls of a given state
\* A pull started in a state the workspace can be in after earlier edits, pushes and
\* pulls: the rows, the ledger, the remote records, the watermark and the workspace
\* config are drawn from small sets, and the remote serves each listing in pages of
\* any size, with or without applying the filter it is sent.
SeedIds == {"w1", "w2", "g1"}
Row(name, updated_at) == [present |-> TRUE, name |-> name, updated_at |-> updated_at]
SeedRows(id) ==
  IF id = "w1" THEN {NoRow, Row("Alpha", 0), Row("Alpha", MaxTime), Row("Beta", MaxTime)}
  ELSE IF id = "g1" THEN {NoRow, Row("Alpha", 0)}
  ELSE {NoRow}
SeedRecords ==
  {NoRecord}
  \cup {[present |-> TRUE, table |-> "widgets", ExternalId |-> ext, Name |-> "Beta",
         MirrorVersion |-> NoVersion, ModifiedAt |-> t] :
          ext \in {"w1", "w2", NONE, ""}, t \in 0..MaxTime}
  \cup {[present |-> TRUE, table |-> "gadgets", ExternalId |-> "g1", Name |-> "Beta",
         MirrorVersion |-> NoVersion, ModifiedAt |-> NoTime]}
\* the ledger entry an apply-mode pull at time 0 left for record 1
SeedStates == {NoState, upsert_mirror_state(1, 0, 0)}
NameOnlyMap == <<[local |-> "name", remote |-> "Name"]>>
\* a usable workspace, one without the table id of widgets, one whose gadgets mapping
\* maps no field to ExternalId
SeedWorkspaces ==
  {[ids |-> TableIds, maps |-> [i \in 1..Len(Tables) |-> FieldMap]],
   [ids |-> [TableIds EXCEPT ![1] = NONE], maps |-> [i \in 1..Len(Tables) |-> FieldMap]],
   [ids |-> TableIds, maps |-> [i \in 1..Len(Tables) |-> IF i = 2 THEN NameOnlyMap ELSE FieldMap]]}

InitPull ==
  /\ now = MaxTime
  /\ local \in [SeedIds -> UNION {SeedRows(id) : id \in SeedIds}]
  /\ \A id \in SeedIds : local[id] \in SeedRows(id)
  /\ remote \in [RecIds -> SeedRecords]
  /\ \E ms \in SeedStates :
       /\ ms.present => /\ local["w1"].present
                        /\ remote[1].present /\ remote[1].ExternalId = "w1"
       /\ ledger = [id \in SeedIds |-> IF id = "w1" THEN ms ELSE NoState]
  /\ tx_local = local
  /\ tx_ledger = ledger
  /\ \E w \in {NoTime, 0} : last_pull_at = [i \in 1..Len(Tables) |-> w]
  /\ has_modified = [i \in 1..Len(Tables) |-> Tables[i] = "widgets"]
  /\ \E ws \in SeedWorkspaces : table_ids = ws.ids /\ mapping = ws.maps
  /\ schema = Schema("text")
  /\ pc = "idle"
  /\ run = IdleRun
  /\ prev_conflicts = {}
  /\ pushed = [id \in SeedIds |-> NoPush]
  /\ edits = 0
  /\ runs = 0
  /\ failures = 0
  /\ modified = NoneModified
  /\ report = NoReport
  \* as the timestamps of the row and of its ledger entry say
  /\ edited = [id \in SeedIds |-> has_local_changes(local[id], ledger[id])]
  /\ leads = [id \in LeadIds |-> NoLead]
  /\ touches = <<>>
  /\ touch = NoTouchCall

NextPull ==
  \/ \E apply \in BOOLEAN : PullStart(apply, {})
  \/ PullConfigFails
  \/ \E page_size \in 1..MaxRemote, honours_filter \in BOOLEAN :
        PullListTable(Serving(page_size, honours_filter))
  \/ PullRecord
  \/ PullCommit
  \/ PullFinish
  \/ PullReturn
  \/ PullRaise

SpecPull == InitPull /\ [][NextPull]_vars

\* ------------------------------------------------ a pull after a pull
\* Two pulls in a row of a remote whose join keys are unique, with a name field of type
\* text or number and remote values that are empty, text, a number or a numeric string.
RepullNames == {NONE, "Beta", "#7", "7"}
RepullRecord(table, ext, name) ==
  [present |-> TRUE, table |-> table, ExternalId |-> ext, Name |-> name,
   MirrorVersion |-> NoVersion, ModifiedAt |-> IF table = "widgets" THEN 0 ELSE NoTime]

InitRepull ==
  /\ now = MaxTime
  /\ \E name_type \in {"text", "number"} : schema = Schema(name_type)
  /\ \E row \in {NoRow, Row(NONE, 0), Row("7", 0)} :
       local = [id \in SeedIds |-> IF id = "w1" THEN row ELSE NoRow]
  /\ \E first \in {NoRecord} \cup {RepullRecord("widgets", "w1", name) : name \in RepullNames},
        second \in {NoRecord} \cup {RepullRecord("widgets", "w2", name) : name \in RepullNames}
                             \cup {RepullRecord("gadgets", "g1", name) : name \in RepullNames} :
       remote = [r \in RecIds |-> IF r = 1 THEN first ELSE second]
  /\ \E ms \in SeedStates :
       /\ ms.present => /\ local["w1"].present
                        /\ remote[1].present
       /\ ledger = [id \in SeedIds |-> IF id = "w1" THEN ms ELSE NoState]
  /\ tx_local = local
  /\ tx_ledger = ledger
  /\ last_pull_at = [i \in 1..Len(Tables) |-> NoTime]
  /\ has_modified = [i \in 1..Len(Tables) |-> Tables[i] = "widgets"]
  /\ table_ids = TableIds
  /\ mapping = [i \in 1..Len(Tables) |-> FieldMap]
  /\ pc = "idle"
  /\ run = IdleRun
  /\ prev_conflicts = {}
  /\ pushed = [id \in SeedIds |-> NoPush]
  /\ edits = 0
  /\ runs = 0
  /\ failures = 0
  /\ modified = NoneModified
  /\ report = NoReport
  /\ edited = [id \in SeedIds |-> has_local_changes(local[id], ledger[id])]
  /\ leads = [id \in LeadIds |-> NoLead]
  /\ touches = <<>>
  /\ touch = NoTouchCall

NextRepull ==
  \/ \E apply \in BOOLEAN : PullStart(apply, {})
  \/ PullListTable(Unpaged)
  \/ PullRecord
  \/ PullCommit
  \/ PullFinish
  \/ PullReturn

SpecRepull == InitRepull /\ [][NextRepull]_vars

\* ------------------------------------ pulls with and without the audit log
\* A pull of a given state that is given no logger, a disabled one or an enabled one.
NextAudit ==
  \/ \E apply \in BOOLEAN, accept \in AcceptSets, logger \in Loggers :
        PullStartLogged(apply, accept, logger)
  \/ PullConfigFails
  \/ PullListTable(Unpaged)
  \/ PullRecord
  \/ PullCommit
  \/ PullFinish
  \/ PullReturn
  \/ PullRaise

SpecAudit == InitPull /\ [][NextAudit]_vars

\* ----------------------------------------------- pushes of a given state
\* A push started in a state the workspace can be in: up to two rows of widgets and one
\* of gadgets, none or one of them pushed before, and a remote that holds no, one or two
\* records of w1.
PushedRecord == [present |-> TRUE, table |-> "widgets", ExternalId |-> "w1", Name |-> "Alpha",
                 MirrorVersion |-> 1, ModifiedAt |-> 0]
InitPush ==
  /\ now = MaxTime
  /\ local \in [SeedIds -> {NoRow, Row("Alpha", 0)}]
  /\ remote \in [RecIds -> {NoRecord, PushedRecord}]
  /\ \E ms \in {NoState, upsert_mirror_state(1, 1, 0)} :
       /\ ms.present => local["w1"].present /\ remote[1].present
       /\ ledger = [id \in SeedIds |-> IF id = "w1" THEN ms ELSE NoState]
  /\ tx_local = local
  /\ tx_ledger = ledger
  /\ last_pull_at = [i \in 1..Len(Tables) |-> NoTime]
  /\ has_modified = [i \in 1..Len(Tables) |-> Tables[i] = "widgets"]
  /\ table_ids = TableIds
  /\ mapping = [i \in 1..Len(Tables) |-> FieldMap]
  /\ schema = Schema("text")
  /\ pc = "idle"
  /\ run = IdleRun
  /\ prev_conflicts = {}
  /\ pushed = [id \in SeedIds |-> NoPush]
  /\ edits = 0
  /\ runs = 0
  /\ failures = 0
  /\ modified = NoneModified
  /\ report = NoReport
  \* as the timestamps of the row and of its ledger entry say
  /\ edited = [id \in SeedIds |-> has_local_changes(local[id], ledger[id])]
  /\ leads = [id \in LeadIds |-> NoLead]
  /\ touches = <<>>
  /\ touch = NoTouchCall

NextPush ==
  \/ PushStart
  \/ PushBeginTable
  \/ PushRow
  \/ PushRowFails
  \/ PushRaise
  \/ PushCommit
  \/ PushFinish

SpecPush == InitPush /\ [][NextPush]_vars

\* ====================================================================
\* Properties
\* ====================================================================

\* an iteration of the pull's record loop, for a record with a join key, has just ended
AfterIteration == pc = "pull_record" /\ run.it.external_id # NONE
\* a row of the push's loop has just been pushed
AfterPushRow == pc = "push_row" /\ run.pit.external_id # NONE

CountOf(action) == Cardinality({i \in 1..Len(run.changes) : run.changes[i].action = action})
LastChange == run.changes[Len(run.changes)]
\* the iteration that just ended appended the change entry of its decision
Reported(action) ==
  /\ Len(run.changes) > 0
  /\ LastChange = [table |-> Tables[run.t], external_id |-> run.it.external_id,
                   action |-> action, changed_fields |-> run.it.changed_fields,
                   reason |-> run.it.decision.reason]
\* the counters count the change entries, one for one
CountersMatchChanges ==
  /\ run.summary.conflicts = CountOf("conflict")
  /\ run.summary.applied = CountOf("apply")
  /\ run.summary.created = CountOf("create")
  /\ CountOf("skip") = 0
  /\ run.summary.scanned = run.summary.skipped + run.summary.applied + run.summary.created
                             + run.summary.conflicts + run.summary.ignored
Range(q) == {q[i] : i \in 1..Len(q)}

\* --------------------------------------------------------------------- C1
\* C1: in pull_records, a record whose local row exists, whose diff is not empty,
\* whose local updated_at is later than the ledger's mirror_updated_at and whose
\* AirtableModifiedAt is present and not later than mirror_updated_at is counted as
\* skipped with reason local_changes, and no conflict is reported for it.
C1_LocalOnlyChangeIsSkipped ==
  (/\ AfterIteration
   /\ run.it.local_dict.present
   /\ run.it.changed_fields # <<>>
   /\ run.it.mirror_dict.present
   /\ run.it.mirror_dict.mirror_updated_at # NoTime
   /\ run.it.local_dict.updated_at > run.it.mirror_dict.mirror_updated_at
   /\ run.it.record.ModifiedAt # NoTime
   /\ run.it.record.ModifiedAt <= run.it.mirror_dict.mirror_updated_at)
  => /\ run.it.classified.action = "skip"
     /\ run.it.classified.reason = "local_changes"
     /\ \A c \in run.seen : c.rec # run.it.record

\* --------------------------------------------------------------------- C2
C2_Conflict == AfterIteration /\ run.it.decision.action = "conflict"

\* C2: a record classified as conflict whose id is not in accept_remote leaves the
\* local row and the ledger entry of its key as the iteration found them, in apply
\* mode and in dry-run mode; it is reported, and the conflicts counter counts exactly
\* the reported conflicts.
C2_ConflictLeavesRowAndLedger ==
  C2_Conflict =>
    /\ run.it.external_id \notin run.accept
    /\ tx_local[run.it.external_id] = run.it.local_dict
    /\ tx_ledger[run.it.external_id] = run.it.mirror_dict
    /\ Reported("conflict")
    /\ CountersMatchChanges
    /\ run.summary.conflicts >= 1

C2_Witness == C2_Conflict /\ run.apply /\ run.accept # {} /\ run.summary.conflicts = 1

\* --------------------------------------------------------------------- C3
\* C3: when pull_service.pull has run, last_pull_at is the current time for every
\* mapped table if the run was in apply mode and reported no conflict, and is what
\* the run loaded for every table otherwise (dry-run, or at least one conflict).
C3_WatermarkOnlyAfterCleanApply ==
  pc = "pull_done" =>
    /\ run.summary.conflicts = CountOf("conflict")
    /\ last_pull_at = IF run.apply /\ CountOf("conflict") = 0
                        THEN [i \in 1..Len(Tables) |-> now]
                        ELSE run.loaded

C3_Witness ==
  /\ pc = "pull_done"
  /\ run.apply
  /\ run.summary.conflicts = 1
  /\ run.loaded[1] = 0
  /\ now = 1
  /\ last_pull_at = run.loaded

\* --------------------------------------------------------------------- C4
\* a conflict of the last apply-mode pull whose row, ledger entry and remote record
\* are still what that pull saw
C4_StillAsSeen(c) ==
  /\ tx_local[c.id] = c.row
  /\ tx_ledger[c.id] = c.ms
  /\ remote[c.rec.record_id].present
  /\ Snapshot(c.rec.record_id) = c.rec

\* C4: a conflict reported by an apply-mode pull, with the local row, the ledger
\* entry and the remote record unchanged since, is listed again by the next pull
\* (the incremental filter does not exclude it) and, when its id is not in
\* accept_remote, is reported as a conflict again.
C4_ConflictReconsidered ==
  /\ pc = "pull_record" =>
       \A c \in prev_conflicts :
         (C4_StillAsSeen(c) /\ remote[c.rec.record_id].table = Tables[run.t])
           => c.rec \in Range(run.records)
  /\ AfterIteration =>
       \A c \in prev_conflicts :
         (/\ run.it.record = c.rec
          /\ run.it.local_dict = c.row
          /\ run.it.mirror_dict = c.ms
          /\ c.id \notin run.accept)
           => run.it.decision.action = "conflict" /\ Reported("conflict")

C4_Witness ==
  /\ AfterIteration
  /\ last_pull_at[run.t] # NoTime
  /\ \E c \in prev_conflicts :
       /\ run.it.record = c.rec
       /\ run.it.local_dict = c.row
       /\ run.it.mirror_dict = c.ms
       /\ run.it.decision.action = "conflict"

\* --------------------------------------------------------------------- C5
C5_Accepted ==
  AfterIteration /\ run.it.classified.action = "conflict" /\ run.it.external_id \in run.accept

C6_DryRun == run.kind = "pull" /\ ~run.apply

\* C6: a pull with apply = false inserts or updates no local row and upserts no
\* ledger entry, whatever the classification of the records, while the records are
\* still scanned, counted by classification and reported in the change list.
C6_DryRunWritesNothing ==
  C6_DryRun =>
    /\ tx_local = run.before_local
    /\ tx_ledger = run.before_ledger
    /\ local = run.before_local
    /\ ledger = run.before_ledger
    /\ CountersMatchChanges
    /\ pc = "pull_record" => run.summary.scanned >= run.idx - 1
    /\ (AfterIteration /\ run.it.decision.action # "skip") => Reported(run.it.decision.action)

C6_Witness ==
  /\ C6_DryRun
  /\ pc = "pull_done"
  /\ run.summary.created + run.summary.applied >= 1
  /\ run.summary.scanned >= 2
  /\ Len(run.changes) >= 1

\* --------------------------------------------------------------------- C7
\* the record listed is the one the last push of this row left, and the row is the
\* one that was pushed
C7_PulledBack ==
  /\ AfterIteration
  /\ run.it.local_dict.present
  /\ pushed[run.it.external_id].rec = run.it.record
  /\ pushed[run.it.external_id].row = run.it.local_dict

\* C7: the pull of the remote record a push left, with no remote or local edit in
\* between, computes an empty changed-field list and a skip decision, and leaves the
\* local row and the ledger entry unchanged.
C7_PushThenPullSkips ==
  C7_PulledBack =>
    /\ run.it.changed_fields = <<>>
    /\ run.it.decision = Decision("skip", <<>>, NONE)
    /\ tx_local[run.it.external_id] = run.it.local_dict
    /\ tx_ledger[run.it.external_id] = run.it.mirror_dict
    /\ run.summary.skipped >= 1

C7_Witness == C7_PulledBack /\ run.apply /\ run.it.record.MirrorVersion = 1

\* --------------------------------------------------------------------- C8
\* C8: for every key, the ledger's mirror_version never decreases from one committed
\* state to the next, across pushes and apply-mode pulls.
C8_VersionNeverDecreases ==
  [][\A id \in Ids :
       ledger[id].present =>
         ledger'[id].present /\ ledger'[id].mirror_version >= ledger[id].mirror_version]_vars

\* --------------------------------------------------------------------- C9
\* C9: every ledger entry, committed or written in the open session, has a
\* mirror_version of at least 1.
C9_VersionAtLeastOne ==
  \A id \in Ids :
    /\ ledger[id].present => ledger[id].mirror_version >= 1
    /\ tx_ledger[id].present => tx_ledger[id].mirror_version >= 1

\* -------------------------------------------------------------------- C10
\* C10: a pushed row's remote record holds MirrorVersion = the ledger's version before
\* the push plus one (1 without a ledger entry), and the ledger entry then holds that
\* version, the remote's record id and the push time; when a push has completed, the
\* ledger version of every local row equals its remote record's MirrorVersion.
C10_PushVersionMatchesLedger ==
  /\ AfterPushRow =>
       LET p == run.pit
           v == IF p.mirror_state.present THEN p.mirror_state.mirror_version + 1 ELSE 1
       IN /\ remote[p.record_id].present
          /\ remote[p.record_id].table = TableOf(p.external_id)
          /\ remote[p.record_id].ExternalId = p.external_id
          /\ remote[p.record_id].MirrorVersion = v
          /\ tx_ledger[p.external_id] =
               [present |-> TRUE, record_id |-> p.record_id, mirror_version |-> v,
                mirror_updated_at |-> p.now]
  /\ (pc = "push_table" /\ run.t > Len(Tables)) =>
       \A id \in Ids :
         local[id].present =>
           /\ ledger[id].present
           /\ remote[ledger[id].record_id].present
           /\ remote[ledger[id].record_id].ExternalId = id
           /\ remote[ledger[id].record_id].MirrorVersion = ledger[id].mirror_version

C10_Witness ==
  /\ AfterPushRow
  /\ run.pit.mirror_state.present
  /\ run.pit.next_version = 2
  /\ remote[run.pit.record_id].MirrorVersion = 2

\* -------------------------------------------------------------------- C11
\* an apply-mode pull has been aborted by an error in a record's local mutation
MutationFailed == pc = "pull_failed" /\ run.raised.type = "sqlite3.Error"
\* the keys this run created or applied before the error
ProcessedEarlier ==
  {run.changes[i].external_id : i \in {j \in 1..Len(run.changes) :
                                         run.changes[j].action \in {"create", "apply"}}}

\* C11: when a record's local mutation fails in an apply-mode pull, the row changes
\* and ledger upserts of the records processed earlier in the run, earlier records
\* of the same table included, are committed after the error.
C11_EarlierRecordsStayCommitted ==
  MutationFailed =>
    \A id \in ProcessedEarlier :
      /\ id \in run.done_local
      /\ id \in run.done_ledger
      /\ local[id].present

\* -------------------------------------------------------------------- C12
\* C12: at every point of a pull, completed or aborted, the keys whose row write is
\* committed are the keys whose ledger upsert is committed; a key without committed
\* writes has the row and the ledger entry the run started from, a key with them
\* has both a row and a ledger entry.
C12_RowAndLedgerCommitTogether ==
  run.kind = "pull" =>
    /\ run.done_local = run.done_ledger
    /\ \A id \in Ids :
         /\ id \notin run.done_local =>
              local[id] = run.before_local[id] /\ ledger[id] = run.before_ledger[id]
         /\ id \in run.done_local => local[id].present /\ ledger[id].present

C12_Witness ==
  /\ MutationFailed
  /\ run.raised.message = "ledger"
  /\ run.done_local # {}
  /\ run.it.external_id \notin run.done_local

\* -------------------------------------------------------------------- C13
\* the exit status sync pull gives a run that returned with a conflict
ConflictExit == sync_pull_exit(NoException, [ZeroSummary EXCEPT !.conflicts = 1])

\* C13: a pull that fails, with PullServiceError or any other error, ends with an
\* exit status different from the one a run that reported conflicts ends with.
C13_ConflictExitIsDistinct ==
  pc = "pull_failed" => run.exit_code # ConflictExit

\* -------------------------------------------------------------------- C14
\* C14: when a remote call of a pull fails, PullServiceError leaves
\* pull_service.pull: with the auth/permission message for status 401 or 403, with
\* the remote error's message for any other status.
C14_RemoteFailureIsPullServiceError ==
  (pc = "pull_failed" /\ run.status # 0) =>
    /\ run.raised.type = "PullServiceError"
    /\ run.status \in {401, 403} => run.raised.message = AuthMessage
    /\ run.status \notin {401, 403} => run.raised.message = StatusMessage(run.status)

\* -------------------------------------------------------------------- C20
C20_Case ==
  /\ AfterIteration
  /\ run.apply
  /\ run.it.local_dict.present
  /\ run.it.changed_fields # <<>>
  /\ ~has_local_changes(run.it.local_dict, run.it.mirror_dict)

Returned == pc = "decide_return"
ArgRow == run.it.local_dict
ArgState == run.it.mirror_dict
ArgChanged == run.it.changed_fields
ArgRemoteModified == _parse_datetime(run.it.record.ModifiedAt)
Result == run.it.classified
\* the local updated_at and the ledger's mirror_updated_at both parse, and the first is later
LocalStrictlyLater ==
  /\ ArgRow.present
  /\ ArgState.present
  /\ _parse_datetime(ArgRow.updated_at) # NoTime
  /\ _parse_datetime(ArgState.mirror_updated_at) # NoTime
  /\ ArgRow.updated_at > ArgState.mirror_updated_at

C15_Case ==
  /\ Returned
  /\ ArgChanged # <<>>
  /\ LocalStrictlyLater
  /\ ArgRemoteModified = NoTime \/ ArgRemoteModified > ArgState.mirror_updated_at

\* C15: decide_pull_action returns conflict (reason local_changes, the changed fields
\* kept) when a local row exists, changed_fields is not empty, the local updated_at is
\* strictly later than mirror_updated_at, and the remote-modified timestamp is strictly
\* later than mirror_updated_at or unknown (absent or unparsable).
C15_ConflictWhenBothChanged ==
  C15_Case => Result = Decision("conflict", ArgChanged, "local_changes")

C15_Witness == C15_Case /\ run.it.record.ModifiedAt = BadTime /\ Result.action = "conflict"

C16_Case ==
  /\ Returned
  /\ ArgChanged # <<>>
  /\ LocalStrictlyLater
  /\ ArgRemoteModified # NoTime
  /\ ArgRemoteModified <= ArgState.mirror_updated_at

\* C16: decide_pull_action returns skip with reason local_changes and the changed-field
\* list when a row and a ledger entry exist, changed_fields is not empty, the local
\* updated_at is strictly later than mirror_updated_at and the remote-modified
\* timestamp is known and not later than mirror_updated_at.
C16_SkipWhenOnlyLocalChanged ==
  C16_Case => Result = Decision("skip", ArgChanged, "local_changes")

C16_Witness ==
  /\ C16_Case
  /\ ArgRemoteModified = ArgState.mirror_updated_at
  /\ Result.action = "skip"
  /\ Len(Result.changed_fields) = 2

C17_Case ==
  /\ Returned
  /\ ArgRow.present
  /\ ArgChanged # <<>>
  /\ ~has_local_changes(ArgRow, ArgState)

\* C17: decide_pull_action returns apply when a local row exists, changed_fields is
\* not empty and has_local_changes is false, whatever the remote-modified timestamp.
C17_ApplyWhenLocalUnchanged ==
  C17_Case => Result = Decision("apply", ArgChanged, NONE)

C17_Witness ==
  /\ C17_Case
  /\ ArgRemoteModified # NoTime
  /\ ArgRemoteModified > ArgState.mirror_updated_at
  /\ Result.action = "apply"

C18_Case == Returned /\ ArgChanged = <<>>

\* C18: decide_pull_action returns skip with an empty changed-field list when
\* changed_fields is empty, whatever the row, the ledger entry and the remote-modified
\* value.
C18_SkipWhenNothingChanged ==
  C18_Case => Result = Decision("skip", <<>>, NONE)

C18_Witness ==
  /\ C18_Case
  /\ ~ArgRow.present
  /\ ~ArgState.present
  /\ Result.action = "skip"

C19_Case == Returned /\ ArgChanged # <<>> /\ ~ArgRow.present

\* C19: decide_pull_action returns create when changed_fields is not empty and no
\* local row exists, whatever the ledger entry and the remote-modified value.
C19_CreateWhenNoLocalRow ==
  C19_Case => Result = Decision("create", ArgChanged, NONE)

C19_Witness ==
  /\ C19_Case
  /\ ArgState.present
  /\ ArgRemoteModified # NoTime
  /\ Result.action = "create"

\* ---------------------------------------------------------- C23 and C24
\* the listing requests of the running pull, and the table each is for
Requests == IF run.kind = "pull" THEN Range(run.requests) ELSE {}
HasModifiedField(req) == has_modified[TableIndex(req.table)]
Watermark(req) == run.loaded[TableIndex(req.table)]
\* the remote record ids of a table, and those of the records just listed
TableRecords(t) == {r \in RecIds : remote[r].present /\ remote[r].table = Tables[t]}
ListedRecords == {run.records[i].record_id : i \in 1..Len(run.records)}

\* C23: when the remote table's metadata has no AirtableModifiedAt field, pull_records
\* requests a field list without AirtableModifiedAt and passes no filter formula, also
\* when a watermark exists for the table.
C23_NoModifiedFieldNoRequestForIt ==
  \A req \in Requests :
    ~HasModifiedField(req) =>
      /\ MODIFIED_FIELD \notin Range(req.fields)
      /\ req.filter = NoFormula

\* C24: when the remote table's metadata has an AirtableModifiedAt field and a watermark
\* exists for the table, pull_records requests AirtableModifiedAt and passes an IS_AFTER
\* filter on that watermark, and the listing holds the records modified after it; when
\* no watermark exists for the table it passes no filter and the listing holds all the
\* table's records.
C24_FilterOnWatermarkWhenFieldPresent ==
  /\ \A req \in Requests :
       HasModifiedField(req) =>
         IF Watermark(req) # NoTime
           THEN /\ MODIFIED_FIELD \in Range(req.fields)
                /\ req.filter = [op |-> "IS_AFTER", field |-> "AirtableModifiedAt",
                                 value |-> Watermark(req)]
           ELSE req.filter = NoFormula
  /\ (pc = "pull_record" /\ has_modified[run.t]) =>
       IF run.loaded[run.t] # NoTime
         THEN ListedRecords = {r \in TableRecords(run.t) : remote[r].ModifiedAt > run.loaded[run.t]}
         ELSE ListedRecords = TableRecords(run.t)

\* a listing of a table that has the field and a watermark left out a record that was
\* not modified after the watermark
C24_Witness ==
  /\ pc = "pull_record"
  /\ has_modified[run.t]
  /\ run.loaded[run.t] = 0
  /\ run.requests[Len(run.requests)].filter.op = "IS_AFTER"
  /\ ListedRecords # {}
  /\ ListedRecords # TableRecords(run.t)

\* -------------------------------------------------------------------- C21
\* the record of the iteration that just ended carries a modification time that is not
\* after the watermark the run loaded for its table: a filtered listing leaves it out
NotModifiedSinceWatermark ==
  /\ AfterIteration
  /\ has_modified[run.t]
  /\ run.loaded[run.t] # NoTime
  /\ run.it.record.ModifiedAt # NoTime
  /\ ~(run.it.record.ModifiedAt > run.loaded[run.t])

\* C21: a pull that receives the unfiltered full record set leaves the same rows and
\* ledger entries and reports the same conflicts and watermark outcome as one that sends
\* the modified-since filter: a record not modified remotely since the watermark is never
\* applied or reported as a conflict when it is included.
C21_UnmodifiedRecordIsNeitherAppliedNorConflict ==
  NotModifiedSinceWatermark => run.it.decision.action \notin {"apply", "conflict"}

\* -------------------------------------------------------------------- C22
\* the formula of the running table's listing request
LastFilter == run.requests[Len(run.requests)].filter
\* the number of pages of the given size a listing of n records is split into
PagesOf(n, page_size) == IF n = 0 THEN 1 ELSE (n + page_size - 1) \div page_size

\* C22: list_records follows the continuation offset until the remote returns none and
\* only then returns: however the remote splits the table's records into pages, the
\* sequence the pull iterates over is the one a single unpaged listing returns.
C22_PagedListingEqualsUnpaged ==
  pc = "pull_record" =>
    /\ run.records = selection(run.t, LastFilter, run.serving)
    /\ run.calls = PagesOf(Len(run.records), run.serving.page_size)

\* a listing of two records took two requests
C22_Witness ==
  /\ pc = "pull_record"
  /\ run.serving.page_size = 1
  /\ run.calls = 2
  /\ Len(run.records) = 2

\* -------------------------------------------------------------------- C28
\* the records of the running table that the loop has gone past
Passed == IF pc = "pull_record" THEN run.idx - 1 ELSE 0
Pending == IF pc = "pull_record" THEN Len(run.records) - Passed ELSE 0
ConflictReported == run.kind = "pull" /\ CountOf("conflict") > 0

\* C28: a conflict on one record does not stop the pull: every later record of the same
\* table and every record of later tables is still classified, and in apply mode still
\* created or applied, in the same run.
C28_ConflictDoesNotStopThePull ==
  ConflictReported =>
    /\ pc = "pull_failed" => table_error(table_ids, mapping, run.t) # NoException
    /\ run.summary.scanned = run.listed - Pending
    /\ CountersMatchChanges
    /\ pc = "pull_done" => Len(run.requests) = Len(Tables)
    /\ (AfterIteration /\ run.apply /\ run.it.decision.action \in {"create", "apply"}) =>
         /\ Reported(run.it.decision.action)
         /\ tx_local[run.it.external_id].present
         /\ diff_fields(tx_local[run.it.external_id], run.it.external_id, run.it.record) = <<>>
         /\ tx_ledger[run.it.external_id].present
         /\ tx_ledger[run.it.external_id].record_id = run.it.record.record_id

\* after a conflict on w1, a later record of the same table was created in the same
\* apply-mode run
C28_Witness ==
  /\ AfterIteration
  /\ run.apply
  /\ run.t = 1
  /\ Len(run.changes) = 2
  /\ run.changes[1].action = "conflict"
  /\ run.it.decision.action = "create"
  /\ tx_local["w2"].present

\* -------------------------------------------------------------------- C29
\* the loop is at a record whose ExternalId is missing or empty
AtKeylessRecord ==
  /\ pc = "pull_record"
  /\ run.idx <= Len(run.records)
  /\ run.records[run.idx].ExternalId \in {NONE, ""}

\* C29: a remote record whose ExternalId is missing or empty is counted once in scanned
\* and once in ignored, produces no change entry, and causes no local row or ledger
\* mutation.
C29_KeylessRecordIsIgnored ==
  [][AtKeylessRecord =>
       /\ run'.summary = [run.summary EXCEPT !.scanned = @ + 1, !.ignored = @ + 1]
       /\ run'.changes = run.changes
       /\ run'.idx = run.idx + 1
       /\ UNCHANGED <<local, ledger, tx_local, tx_ledger>>]_vars

\* the iteration that just ended ignored a record with an empty ExternalId
C29_Witness ==
  /\ pc = "pull_record"
  /\ run.it.record.record_id # NoRecordId
  /\ run.it.record.ExternalId = ""
  /\ run.it.external_id = NONE
  /\ run.summary.ignored = 1

\* -------------------------------------------------------------------- C30
\* the pull was aborted at a table the workspace config or the mapping leaves unusable
ConfigAbort == pc = "pull_failed" /\ table_error(table_ids, mapping, run.t) # NoException

\* C30: if a mapped table has no table id in the workspace config or no field mapped to
\* ExternalId, pull_records raises PullError before listing any remote record or touching
\* any local row of that table, and pull_service.pull surfaces it as PullServiceError and
\* leaves every watermark unchanged.
C30_UnusableTableAbortsBeforeItsListing ==
  /\ \A req \in Requests : table_error(table_ids, mapping, TableIndex(req.table)) = NoException
  /\ ConfigAbort =>
       /\ run.raised.type = "PullServiceError"
       /\ run.raised.message = table_error(table_ids, mapping, run.t).message
       /\ Len(run.requests) = run.t - 1
       /\ \A req \in Requests : req.table # Tables[run.t]
       /\ \A id \in DOMAIN local :
            TableOf(id) = Tables[run.t] =>
              /\ local[id] = run.before_local[id] /\ tx_local[id] = local[id]
              /\ ledger[id] = run.before_ledger[id] /\ tx_ledger[id] = ledger[id]
       /\ last_pull_at = run.loaded
       /\ run.exit_code = 1

\* the gadgets mapping maps no field to ExternalId: the pull was aborted there after the
\* widgets table was listed and a row of it created
C30_Witness ==
  /\ ConfigAbort
  /\ run.t = 2
  /\ run.apply
  /\ run.summary.created = 1
  /\ run.raised.message = "Table gadgets mapping must map a field to ExternalId."

\* ---------------------------------------------------------- C26 and C27
PushAborted == pc = "push_failed"
\* the remote records of the running table that hold the given ExternalId
RecordsOf(rem, id) ==
  {r \in RecIds : rem[r].present /\ rem[r].table = Tables[run.t] /\ rem[r].ExternalId = id}

\* C26: when a remote call fails for a row during push, the push stops with a MirrorError
\* and every row pushed earlier in the same run remains pushed: its remote record keeps
\* the pushed values and its ledger entry holds the pushed version and remote record id,
\* for earlier rows of the same table as well as rows of earlier tables.
C26_EarlierRowsStayPushed ==
  PushAborted =>
    /\ run.raised.type = "MirrorError"
    /\ \A i \in 1..Len(run.sent) :
         LET e == run.sent[i]
         IN /\ Snapshot(e.record_id) = e.rec
            /\ ledger[e.external_id].present
            /\ ledger[e.external_id].mirror_version = e.version
            /\ ledger[e.external_id].record_id = e.record_id

\* C27: if the remote table holds more than one record with the same ExternalId as a
\* local row, the push of that table fails with a MirrorError, and no remote record is
\* created or updated and no ledger entry is written for that row.
C27_DuplicateJoinKeyFailsThePush ==
  /\ AfterPushRow => Cardinality(RecordsOf(remote, run.pit.external_id)) = 1
  /\ (PushAborted /\ Cardinality(RecordsOf(remote, run.pit.external_id)) > 1) =>
       /\ run.raised = Exception("MirrorError", "Multiple Airtable records found for ExternalId.")
       /\ RecordsOf(remote, run.pit.external_id) = RecordsOf(run.before_remote, run.pit.external_id)
       /\ \A r \in RecordsOf(remote, run.pit.external_id) : remote[r] = run.before_remote[r]
       /\ ledger[run.pit.external_id] = run.before_ledger[run.pit.external_id]
       /\ tx_ledger[run.pit.external_id] = run.before_ledger[run.pit.external_id]

\* the push of widgets stopped at w1, of which the remote holds two records
C27_Witness ==
  /\ PushAborted
  /\ run.t = 1
  /\ run.pit.external_id = "w1"
  /\ Cardinality(RecordsOf(remote, "w1")) = 2
  /\ run.raised.type = "MirrorError"

\* -------------------------------------------------------------------- C25
\* log_touch has returned from a call with next_action=None and due=None
TouchedWithoutNextAction ==
  touch.state = "done" /\ touch.next_action = NONE /\ touch.due = NoDate

\* C25: log_touch called with next_action=None and due=None leaves the lead's existing
\* next_action and next_action_due unchanged, while still recording the touch and
\* updating the lead's last_touch_at, last_touch_channel and updated_at.
C25_TouchKeepsNextAction ==
  TouchedWithoutNextAction =>
    /\ leads[touch.record_id].next_action = touch.before.next_action
    /\ leads[touch.record_id].next_action_due = touch.before.next_action_due
    /\ leads[touch.record_id].last_touch_at = utc_now_iso
    /\ leads[touch.record_id].last_touch_channel = touch.channel
    /\ leads[touch.record_id].updated_at = utc_now_iso
    /\ Len(touches) = 1
    /\ touch.record_id \in {touches[1].opp_id, touches[1].member_id}

\* -------------------------------------------------------------------- C31
\* a timestamp that _parse_datetime turns into a datetime
Parses(stamp) == stamp # NoTime /\ stamp # BadTime

\* C31: has_local_changes returns false when no local row exists, true when a local row
\* exists without a ledger entry, and otherwise true exactly when the local updated_at is
\* strictly later than mirror_updated_at; whenever a ledger entry exists and the local
\* updated_at cannot be parsed, it returns false.
C31_HasLocalChanges ==
  pc = "changes_return" =>
    /\ ~ArgRow.present => run.local_changed = FALSE
    /\ ArgRow.present /\ ~ArgState.present => run.local_changed = TRUE
    /\ ArgRow.present /\ ArgState.present /\ Parses(ArgRow.updated_at)
         /\ Parses(ArgState.mirror_updated_at)
         => run.local_changed = (ArgRow.updated_at > ArgState.mirror_updated_at)
    /\ ArgRow.present /\ ArgState.present /\ ~Parses(ArgRow.updated_at)
         => run.local_changed = FALSE

\* -------------------------------------------------------------------- C32
\* the loop is about to run an iteration
IterationPending == pc = "pull_record" /\ run.idx <= Len(run.records)
\* what the caller and the store get from an iteration: the summary, the change list,
\* the session's rows and ledger entries, the record the loop goes on with, and the
\* exception that leaves pull_records
Visible(out) ==
  [summary |-> out.run.summary, changes |-> out.run.changes, idx |-> out.run.idx,
   tx_local |-> out.tx_local, tx_ledger |-> out.tx_ledger, raised |-> out.raised]

PullReturned == pc = "pull_done"

\* C33: after any pull_records run that returns, scanned = skipped + applied + created
\* + conflicts + ignored, the change list has exactly applied + created + conflicts
\* entries, and no change entry has action skip.
C33_SummaryAccountsForEveryRecord ==
  PullReturned =>
    /\ run.summary.scanned = run.summary.skipped + run.summary.applied + run.summary.created
                               + run.summary.conflicts + run.summary.ignored
    /\ Len(run.changes) = run.summary.applied + run.summary.created + run.summary.conflicts
    /\ \A i \in 1..Len(run.changes) : run.changes[i].action # "skip"

\* a returned run that scanned a record without a join key and reported a conflict
C33_Witness ==
  /\ PullReturned
  /\ run.summary.scanned = 2
  /\ run.summary.ignored = 1
  /\ run.summary.conflicts = 1
  /\ Len(run.changes) = 1

\* -------------------------------------------------------------------- C34
\* C34: an apply-mode pull never overwrites a local row that a local operation modified
\* after the last ledger update of that record (in the order the events happened),
\* unless the record's external id is in accept_remote.
C34_LocalEditIsNotOverwritten ==
  (/\ AfterIteration
   /\ run.apply
   /\ run.it.local_dict.present
   /\ edited[run.it.external_id]
   /\ run.it.external_id \notin run.accept)
  => tx_local[run.it.external_id] = run.it.local_dict

\* -------------------------------------------------------------------- C35
\* an incremental pull has just listed a table with the filter on the watermark
ListedIncrementally ==
  /\ pc = "pull_record"
  /\ run.idx = 1
  /\ run.requests[Len(run.requests)].filter # NoFormula

\* C35: after an apply-mode pull advances the watermark, every remote record that is
\* modified after that pull listed its table is returned by the filter of the next
\* incremental pull, so no remote edit is skipped by the watermark. Stated for the
\* records that have a join key, which are the ones a pull can act on.
C35_WatermarkSkipsNoRemoteEdit ==
  ListedIncrementally /\ modified.advanced =>
    \A r \in modified.since_watermark :
      (/\ remote[r].present
       /\ remote[r].table = Tables[run.t]
       /\ remote[r].ExternalId \notin {NONE, ""})
        => \E i \in 1..Len(run.records) : run.records[i].record_id = r

\* -------------------------------------------------------------------- C36
\* C36: after an apply-mode pull completes with zero conflicts, an immediately following
\* pull of the same remote records, with no local or remote edit in between, classifies
\* every record with a join key as skip and changes no local row and no ledger entry.
C36_SecondPullSkipsEverything ==
  (/\ AfterIteration
   /\ modified.advanced
   /\ modified.since_watermark = {}
   /\ \A id \in DOMAIN edited : local[id].present /\ ledger[id].present => ~edited[id])
  => /\ run.it.classified.action = "skip"
     /\ tx_local = run.before_local
     /\ tx_ledger = run.before_ledger

\* -------------------------------------------------------------------- C37
\* an apply-mode pull has returned, and it was started with the accept_remote set and
\* from the rows, ledger entries, remote records and watermark of the last dry-run pull
AppliedWhatWasPreviewed ==
  /\ PullReturned
  /\ run.apply
  /\ report.valid
  /\ report.accept = run.accept
  /\ report.loaded = run.loaded
  /\ report.local = run.before_local
  /\ report.ledger = run.before_ledger
  /\ report.remote = run.before_remote

\* C37: started from the same local, ledger and remote state with the same accept_remote
\* set, a dry-run pull returns the same summary counts and the same change list as an
\* apply-mode pull.
C37_DryRunReportsWhatApplyDoes ==
  AppliedWhatWasPreviewed =>
    /\ report.summary = run.summary
    /\ report.changes = run.changes

\* -------------------------------------------------------------------- C38
\* the step is a successful push write of the row the loop is at
PushWrites ==
  /\ pc = "push_row"
  /\ pc' = "push_row"
  /\ run.idx <= Len(run.rows)
  /\ run'.idx = run.idx + 1
\* the remote record the step writes was written by an earlier push of the same row and
\* holds a MirrorVersion that is a number
WrittenBefore ==
  /\ pushed[run.rows[run.idx]].rec.record_id = run'.pit.record_id
  /\ remote[run'.pit.record_id].present
  /\ remote[run'.pit.record_id].MirrorVersion >= 0

\* C38: across any sequence of pushes and pulls, each successful push write of a record
\* sets the remote MirrorVersion strictly greater than the MirrorVersion the remote
\* record held before that write.
C38_PushRaisesRemoteVersion ==
  [][(PushWrites /\ WrittenBefore)
       => remote'[run'.pit.record_id].MirrorVersion > remote[run'.pit.record_id].MirrorVersion]_vars

\* -------------------------------------------------------------------- C39
\* in the open session, right after the push of a row
PushedRowIsClean ==
  AfterPushRow
    => ~has_local_changes(tx_local[run.pit.external_id], tx_ledger[run.pit.external_id])
\* in the open session, right after an apply-mode pull has created or applied a record
PulledRowIsClean ==
  (AfterIteration /\ run.apply /\ run.it.decision.action \in {"create", "apply"})
    => ~has_local_changes(tx_local[run.it.external_id], tx_ledger[run.it.external_id])
\* between commands, a row that is still as its last successful push sent it
StaysClean ==
  pc = "idle"
    => \A id \in DOMAIN pushed :
         (pushed[id].rec.record_id # NoRecordId /\ local[id] = pushed[id].row)
           => ~has_local_changes(local[id], ledger[id])

\* C39: immediately after a record is successfully pushed, or created or applied by an
\* apply-mode pull, has_local_changes is false for that record, and it stays false until
\* the next local mutation of the row.
C39_SyncedRowHasNoLocalChanges == PushedRowIsClean /\ PulledRowIsClean /\ StaysClean

====
